---- MODULE Spec2Model ----
(***************************************************************************)
(* Model of the spindle service supervisor (crates/spindle-core,           *)
(* service.rs): the group builder, the ServiceManager facade, the process  *)
(* runners (service_task) and the event loop                               *)
(* (handle_service_manager_event).                                         *)
(***************************************************************************)
EXTENDS Integers, Sequences, FiniteSets, TLC

\* ------------------------------------------------------------------------
\* Bounds of the model
\* ------------------------------------------------------------------------
MaxRunners == 3      \* runners (service_task) ever spawned in one behaviour
MaxCalls == 3        \* public API calls made by the callers in one behaviour
MaxFaults == 1       \* spawn failures, self-exits and kill failures
NumCallers == 1      \* callers of the public API
NumTasks == 2        \* tasks that call the public API concurrently
MaxWaiting == 15     \* events that wait in the channel in the initial state
MaxConfigs == 3      \* configs given to from_configs
MaxNames == 3        \* length of the name lists given to is_subset
MaxAliasGroups == 2  \* old aliased groups, and new groups, given to map_alias

\* mpsc::channel(16)
EventChannelCapacity == 16

\* ------------------------------------------------------------------------
\* Service keys and configs
\* ------------------------------------------------------------------------
kA == <<"A", "v1">>
kB == <<"B", "v1">>
kC == <<"C", "v1">>
NoKey == <<"", "">>

\* Option::None, Option::Some
None == <<"None">>
Some(x) == <<"Some", x>>

ServiceConfig(n, deps) ==
  [name |-> n, version |-> "v1", program |-> "p", args |-> <<>>,
   dependencies |-> deps, workspace |-> None]

ConfigKey(config) == <<config.name, config.version>>

\* A -> B -> C : C depends on B, B on A
ChainConfigs == << ServiceConfig("A", <<>>), ServiceConfig("B", <<kA>>),
                   ServiceConfig("C", <<kB>>) >>
\* two roots sharing one dependent
FanInConfigs == << ServiceConfig("A", <<>>), ServiceConfig("B", <<>>),
                   ServiceConfig("C", <<kA, kB>>) >>
\* C is reachable from A directly and through B
TriangleConfigs == << ServiceConfig("A", <<>>), ServiceConfig("B", <<kA>>),
                      ServiceConfig("C", <<kA, kB>>) >>
\* B depends on A
PairConfigs == << ServiceConfig("A", <<>>), ServiceConfig("B", <<kA>>) >>
\* two groups: A alone, and C depending on B
DisjointConfigs == << ServiceConfig("A", <<>>), ServiceConfig("B", <<>>),
                      ServiceConfig("C", <<kB>>) >>
\* ------------------------------------------------------------------------
\* Small helpers
\* ------------------------------------------------------------------------
Range(s) == {s[i] : i \in DOMAIN s}

RECURSIVE SetToSeqs(_)
\* all orderings of a finite set (iteration orders of a HashMap)
SetToSeqs(S) ==
  IF S = {} THEN {<<>>}
  ELSE UNION {{<<x>> \o t : t \in SetToSeqs(S \ {x})} : x \in S}

RECURSIVE Closure(_, _)
\* the nodes reachable from the set S along the edges of E (S included)
Closure(E, S) ==
  LET S2 == S \cup {e[2] : e \in {x \in E : x[1] \in S}}
  IN IF S2 = S THEN S ELSE Closure(E, S2)

\* ------------------------------------------------------------------------
\* Group builder (service.rs 92-344)
\* ------------------------------------------------------------------------
ServiceMeta(config) ==
  [name |-> config.name, version |-> config.version, program |-> config.program,
   args |-> config.args, workspace |-> config.workspace]

MetaKey(meta) == <<meta.name, meta.version>>

\* format!("Service {}:v{} is not unique", name, version)
NotUniqueReason(key) == <<"Service ", key[1], ":v", key[2], " is not unique">>
\* format!("Dependency service {}/{} not found", dep.name, dep.version)
DepNotFoundReason(dep) == <<"Dependency service ", dep[1], "/", dep[2], " not found">>
CyclicReason == <<"Service group dependency is cyclic">>
SiblingMissingReason ==
  <<"Graph build failed because sibling services in the group were missing">>

DeadLetterQueueItem(k, r, m) == [key |-> k, reason |-> r, meta |-> m]

RECURSIVE validate_service_name_unique_last_wins(_, _, _)
\* a variant of validate_service_name_unique that keeps the last config of a
\* key and moves the one it replaces to the DLQ
validate_service_name_unique_last_wins(configs, ret, dlq0) ==
  IF configs = <<>> THEN [service_infos |-> ret, dlq |-> dlq0]
  ELSE LET config == Head(configs)
           key == ConfigKey(config)
           info == [meta |-> ServiceMeta(config), deps |-> config.dependencies]
       IN IF key \in DOMAIN ret
          THEN validate_service_name_unique_last_wins(Tail(configs),
                 [ret EXCEPT ![key] = info],
                 Append(dlq0, DeadLetterQueueItem(key, NotUniqueReason(key), ret[key].meta)))
          ELSE validate_service_name_unique_last_wins(Tail(configs),
                 (key :> info) @@ ret, dlq0)

RECURSIVE validate_service_name_unique(_, _, _)
\* first occurrence of a key goes to the map, later ones to the DLQ
validate_service_name_unique(configs, ret, dlq0) ==
  IF configs = <<>> THEN [service_infos |-> ret, dlq |-> dlq0]
  ELSE LET config == Head(configs)
           key == ConfigKey(config)
           meta == ServiceMeta(config)
       IN IF key \in DOMAIN ret
          THEN validate_service_name_unique(Tail(configs), ret,
                 Append(dlq0, DeadLetterQueueItem(key, NotUniqueReason(key), meta)))
          ELSE validate_service_name_unique(Tail(configs),
                 (key :> [meta |-> meta, deps |-> config.dependencies]) @@ ret, dlq0)

\* the first dependency of deps that is not a key of service_infos
FirstMissingDep(deps, service_infos) ==
  LET missing == {i \in DOMAIN deps : deps[i] \notin DOMAIN service_infos}
  IN deps[CHOOSE i \in missing : \A j \in missing : i <= j]

\* removed_services of one pass of the while loop, as a set
RemovedServices(service_infos) ==
  {k \in DOMAIN service_infos :
     \E i \in DOMAIN service_infos[k].deps :
        service_infos[k].deps[i] \notin DOMAIN service_infos}

\* a variant of DependencyPass that removes every service of the pass but
\* reports only the first one it meets
DependencyPass_first_reported(service_infos, dlq0, order) ==
  [service_infos |->
     [k \in DOMAIN service_infos \ Range(order) |-> service_infos[k]],
   dlq |-> dlq0 \o
     [i \in DOMAIN order \cap {1} |->
        DeadLetterQueueItem(order[i],
          DepNotFoundReason(FirstMissingDep(service_infos[order[i]].deps, service_infos)),
          service_infos[order[i]].meta)]]

\* one pass of the while loop; order is the iteration order of the HashMap
\* restricted to the services that are removed
DependencyPass(service_infos, dlq0, order) ==
  [service_infos |->
     [k \in DOMAIN service_infos \ Range(order) |-> service_infos[k]],
   dlq |-> dlq0 \o
     [i \in DOMAIN order |->
        DeadLetterQueueItem(order[i],
          DepNotFoundReason(FirstMissingDep(service_infos[order[i]].deps, service_infos)),
          service_infos[order[i]].meta)]]

RECURSIVE validate_service_dependencies(_, _)
\* the possible results of the fixed-point loop, one per iteration order
validate_service_dependencies(service_infos, dlq0) ==
  LET removed == RemovedServices(service_infos)
  IN IF removed = {} THEN {[service_infos |-> service_infos, dlq |-> dlq0]}
     ELSE UNION {
       LET r == DependencyPass(service_infos, dlq0, order)
       IN validate_service_dependencies(r.service_infos, r.dlq)
       : order \in SetToSeqs(removed)}

\* edges dep -> dependent of the intermediate graph of split_services
AllNodesEdges(service_infos) ==
  UNION {{<<service_infos[k].deps[i], k>> :
            i \in {j \in DOMAIN service_infos[k].deps :
                     service_infos[k].deps[j] \in DOMAIN service_infos}} :
         k \in DOMAIN service_infos}

\* a variant of get_weakly_connected_components that never unites two nodes
get_weakly_connected_components_apart(nodes, edges) == {{k} : k \in nodes}

\* union-find over the edges: the classes of undirected reachability
get_weakly_connected_components(nodes, edges) ==
  LET undirected == edges \cup {<<e[2], e[1]>> : e \in edges}
  IN {Closure(undirected, {k}) : k \in nodes}

RECURSIVE OrderEach(_)
\* every way to order the members of each component of a list of components
OrderEach(components) ==
  IF components = <<>> THEN {<<>>}
  ELSE {<<o>> \o rest : o \in SetToSeqs(Head(components)),
                        rest \in OrderEach(Tail(components))}

\* the possible results (Vec<Vec<ServiceKey>>): the components in any order
\* (HashMap::into_values), the members of each in node-index order, which is
\* the iteration order of service_infos
split_services(service_infos) ==
  UNION {OrderEach(cs) :
         cs \in SetToSeqs(get_weakly_connected_components(
                   DOMAIN service_infos, AllNodesEdges(service_infos)))}

\* a variant of is_cyclic_directed that finds self-loops only
is_cyclic_directed_self_loops(edges) == \E e \in edges : e[1] = e[2]

\* petgraph::algo::is_cyclic_directed on a set of edges (a self-loop is a cycle)
is_cyclic_directed(edges) == \E e \in edges : e[1] \in Closure(edges, {e[2]})

\* a variant of DepEdges that adds no edge from a node to itself
DepEdges_no_self_loop(cur, deps, keyset) ==
  LET In(d) == d \in keyset /\ d # cur
      kept == SelectSeq(deps, In)
  IN [i \in DOMAIN kept |-> <<kept[i], cur>>]

\* the edges dep -> cur added for one node, in the order of its deps
DepEdges(cur, deps, keyset) ==
  LET In(d) == d \in keyset
      kept == SelectSeq(deps, In)
  IN [i \in DOMAIN kept |-> <<kept[i], cur>>]

RECURSIVE EdgeConstruction(_, _, _)
EdgeConstruction(found, service_infos, i) ==
  IF i > Len(found) THEN <<>>
  ELSE DepEdges(found[i], service_infos[found[i]].deps, Range(found))
       \o EdgeConstruction(found, service_infos, i + 1)

NoGroup == [nodes |-> <<>>, edges |-> <<>>]

\* a variant of build_service_group that drops the members of a cyclic
\* group instead of moving them to the DLQ
build_service_group_dropping(service_keys, service_infos, dlq0) ==
  LET Found(i) == /\ service_keys[i] \in DOMAIN service_infos
                  /\ \A j \in 1..(i - 1) : service_keys[j] # service_keys[i]
      foundIdx == {i \in DOMAIN service_keys : Found(i)}
      IsFound(k) == \E i \in foundIdx : service_keys[i] = k
      found == SelectSeq(service_keys, IsFound)
      rest == [k \in DOMAIN service_infos \ Range(found) |-> service_infos[k]]
      nodes == [i \in DOMAIN found |-> service_infos[found[i]].meta]
      edges == EdgeConstruction(found, service_infos, 1)
  IN IF foundIdx # DOMAIN service_keys
     THEN [service_infos |-> rest, built |-> FALSE, group |-> NoGroup,
           dlq |-> dlq0 \o [i \in DOMAIN nodes |->
                     DeadLetterQueueItem(MetaKey(nodes[i]), SiblingMissingReason, nodes[i])]]
     ELSE IF is_cyclic_directed(Range(edges))
     THEN [service_infos |-> rest, built |-> FALSE, group |-> NoGroup, dlq |-> dlq0]
     ELSE [service_infos |-> rest, built |-> TRUE, dlq |-> dlq0,
           group |-> [nodes |-> nodes, edges |-> edges]]

\* result: the remaining service_infos, the DLQ, and the group when built
build_service_group(service_keys, service_infos, dlq0) ==
  LET Found(i) == /\ service_keys[i] \in DOMAIN service_infos
                  /\ \A j \in 1..(i - 1) : service_keys[j] # service_keys[i]
      foundIdx == {i \in DOMAIN service_keys : Found(i)}
      IsFound(k) == \E i \in foundIdx : service_keys[i] = k
      found == SelectSeq(service_keys, IsFound)
      is_all_meta_found == foundIdx = DOMAIN service_keys
      rest == [k \in DOMAIN service_infos \ Range(found) |-> service_infos[k]]
      nodes == [i \in DOMAIN found |-> service_infos[found[i]].meta]
      edges == EdgeConstruction(found, service_infos, 1)
  IN IF ~is_all_meta_found
     THEN [service_infos |-> rest, built |-> FALSE, group |-> NoGroup,
           dlq |-> dlq0 \o [i \in DOMAIN nodes |->
                     DeadLetterQueueItem(MetaKey(nodes[i]), SiblingMissingReason, nodes[i])]]
     ELSE IF is_cyclic_directed(Range(edges))
     THEN [service_infos |-> rest, built |-> FALSE, group |-> NoGroup,
           dlq |-> dlq0 \o [i \in DOMAIN nodes |->
                     DeadLetterQueueItem(MetaKey(nodes[i]), CyclicReason, nodes[i])]]
     ELSE [service_infos |-> rest, built |-> TRUE, dlq |-> dlq0,
           group |-> [nodes |-> nodes, edges |-> edges]]

RECURSIVE BuildEach(_, _, _, _)
\* the for loop of build_groups_from_configs
BuildEach(service_key_groups, service_infos, dlq0, ret) ==
  IF service_key_groups = <<>> THEN [groups |-> ret, dlq |-> dlq0]
  ELSE LET r == build_service_group(Head(service_key_groups), service_infos, dlq0)
       IN BuildEach(Tail(service_key_groups), r.service_infos, r.dlq,
                    IF r.built THEN Append(ret, r.group) ELSE ret)

\* the possible results of the builder, one per iteration order of its maps
build_groups_from_configs(service_configs) ==
  LET u == validate_service_name_unique(service_configs, <<>>, <<>>)
  IN UNION {{BuildEach(kg, p.service_infos, p.dlq, <<>>) :
             kg \in split_services(p.service_infos)} :
            p \in validate_service_dependencies(u.service_infos, u.dlq)}

\* ------------------------------------------------------------------------
\* ServiceManager: state
\* ------------------------------------------------------------------------
VARIABLES
  builder,                 \* the locals of build_groups_from_configs
  service_groups,          \* Vec<ServiceGroup>, fixed by from_configs
  dlq,                     \* Vec<DeadLetterQueueItem>, fixed by from_configs
  service_state_map,       \* DashMap<ServiceKey, ServiceState>
  service_canceltoken_map, \* DashMap<ServiceKey, CancellationToken>: 0 = no
                           \* entry, r = the token held by service_tasks[r]
  service_tasks,           \* the runners spawned so far (service_task)
  event_chan,              \* the mpsc channel of ServiceManagerEvent
  calls,                   \* per caller: the public call in progress
  cascades,                \* tasks spawned by the event loop on ServiceCrashed
  ncalls,                  \* public calls made so far
  nfaults,                 \* spawn failures, self-exits, kill failures so far
  plan,                    \* the calls a scripted caller has still to make
  cancel_token,            \* the manager's root CancellationToken: cancelled?
  event_rx,                \* the Receiver held by the event loop: "open" until
                           \* handle_service_manager_event returns
  db,                      \* the tables of sqlite:spindle.db
  app_state,               \* AppState: is service_manager Some or None
  command                  \* the Tauri command that ran last, with its result

\* the state of the persistence layer (src-tauri service.rs) and the state
\* that ends with the manager (Drop, the event loop's receiver)
persistence == <<db, app_state, command>>
lifetime == <<cancel_token, event_rx>>

vars == <<builder, service_groups, dlq, service_state_map, service_canceltoken_map,
          service_tasks, event_chan, calls, cascades, ncalls, nfaults, plan,
          cancel_token, event_rx, db, app_state, command>>

\* the tables created by SPINDLE_MIGRATION_1 (db.rs 9-58), as sets of rows;
\* sqlite_sequence holds the last id given by AUTOINCREMENT
EmptyStore ==
  [service |-> {}, service_config |-> {}, service_arg |-> {},
   service_dependency |-> {}, service_group_membership |-> {},
   service_group_alias |-> {}, sqlite_sequence |-> 0]

NoCommand ==
  [op |-> "none", pc |-> "returned", args |-> <<>>, ret |-> <<>>,
   after |-> [op |-> "none", args |-> <<>>, ret |-> <<>>]]

\* the persistence layer is not used: an empty store and no command
StoreUnused(manager) ==
  /\ db = EmptyStore
  /\ app_state = [service_manager |-> manager]
  /\ command = NoCommand

\* ServiceState
Pending == <<"Pending">>
Starting == <<"Starting">>
Running == <<"Running">>
Stopping == <<"Stopping">>
Stopped == <<"Stopped">>
Skipped == <<"Skipped">>
Failed(reason) == <<"Failed", reason>>
IsFailed(s) == s[1] = "Failed"

SpawnFailedReason == "Failed to spawn service: <err>"
KillFailedReason == "Service task killed with error: <err>"
ExitStatusReason == "Service task exited with status: <status>"
ExitErrorReason == "Service task exited with error: <err>"

\* ServiceManagerEvent
ServiceStarted(k) == [type |-> "ServiceStarted", service_key |-> k, reason |-> ""]
ServiceStopped(k) == [type |-> "ServiceStopped", service_key |-> k, reason |-> ""]
ServiceCrashed(k, r) == [type |-> "ServiceCrashed", service_key |-> k, reason |-> r]

\* the tasks that hold the manager and call its methods
Callers == DOMAIN calls

\* ------------------------------------------------------------------------
\* Read-only views of the groups
\* ------------------------------------------------------------------------
\* At run time a group is [nodes, edges]: the node weights as a set (node
\* indices only serve as identities) and the edges in insertion order.
ManagedGroup(group) == [nodes |-> Range(group.nodes), edges |-> group.edges]

GroupKeys(group) == {MetaKey(meta) : meta \in group.nodes}

\* the keys of build_service_state_map / build_service_groupidx_map
ServiceKeys == UNION {GroupKeys(service_groups[g]) : g \in DOMAIN service_groups}

\* service_groupidx_map
service_groupidx(key) == CHOOSE g \in DOMAIN service_groups : key \in GroupKeys(service_groups[g])

\* graph.neighbors_directed(node, Incoming): the sources of the edges into
\* key, most recently added edge first
IncomingNeighbors(group, key) ==
  LET Into(e) == e[2] = key
      es == SelectSeq(group.edges, Into)
  IN [i \in DOMAIN es |-> es[Len(es) + 1 - i][1]]

\* graph.neighbors_directed(node, Outgoing): the targets of the edges out of
\* key, most recently added edge first
OutgoingNeighbors(group, key) ==
  LET From(e) == e[1] = key
      es == SelectSeq(group.edges, From)
  IN [i \in DOMAIN es |-> es[Len(es) + 1 - i][2]]

\* the dependencies read by deps_running, in the order it reads them
dep_keys(key) == IncomingNeighbors(service_groups[service_groupidx(key)], key)

\* a variant of rev_dep_keys that also returns the services of the other
\* groups
rev_dep_keys_all_groups(key) ==
  OutgoingNeighbors(service_groups[service_groupidx(key)], key) \o
  (CHOOSE o \in SetToSeqs(ServiceKeys \ GroupKeys(service_groups[service_groupidx(key)])) : TRUE)

rev_dep_keys(key) == OutgoingNeighbors(service_groups[service_groupidx(key)], key)

\* the in-degree zero nodes of a group
group_root_service_keys(g) ==
  {key \in GroupKeys(service_groups[g]) :
     IncomingNeighbors(service_groups[g], key) = <<>>}

\* a variant of toposort that ignores the edges
toposort_unordered(group) == SetToSeqs(GroupKeys(group))

\* petgraph::algo::toposort: the valid linearizations of the group's graph
toposort(group) ==
  {o \in SetToSeqs(GroupKeys(group)) :
     \A e \in Range(group.edges) :
        \E i, j \in DOMAIN o : i < j /\ o[i] = e[1] /\ o[j] = e[2]}

\* ------------------------------------------------------------------------
\* Construction
\* ------------------------------------------------------------------------
IdleCall ==
  [op |-> "none", key |-> NoKey, pc |-> "idle", deps |-> <<>>, todo |-> <<>>,
   stack |-> <<>>, res |-> "none", hit |-> {}, n |-> 0, tmo |-> FALSE]

\* a variant of build_service_state_map that starts the services as Stopped
build_service_state_map_stopped(groups) ==
  [k \in UNION {GroupKeys(groups[g]) : g \in DOMAIN groups} |-> Stopped]

\* build_service_state_map (service.rs 356-364), on the groups the manager
\* holds
build_service_state_map(groups) ==
  [k \in UNION {GroupKeys(groups[g]) : g \in DOMAIN groups} |-> Pending]

\* ServiceManager::service_state (service.rs 521-524)
service_state(key) ==
  IF key \in DOMAIN service_state_map THEN service_state_map[key] ELSE None

\* the builder's locals once the manager is constructed
NoBuilder ==
  [stage |-> "done", service_configs |-> <<>>, service_infos |-> <<>>,
   service_key_groups |-> <<>>, ret |-> <<>>, passes |-> 0]

\* ServiceManager::from_configs, the manager then shared by the tasks of
\* callers
from_configs_shared(service_configs, callers) ==
  \E b \in build_groups_from_configs(service_configs) :
    /\ builder = NoBuilder
    /\ service_groups = [g \in DOMAIN b.groups |-> ManagedGroup(b.groups[g])]
    /\ dlq = b.dlq
    /\ service_state_map =
         build_service_state_map([g \in DOMAIN b.groups |-> ManagedGroup(b.groups[g])])
    /\ service_canceltoken_map =
         [k \in UNION {GroupKeys(ManagedGroup(b.groups[g])) : g \in DOMAIN b.groups}
            |-> 0]
    /\ service_tasks = <<>>
    /\ event_chan = <<>>
    /\ calls = [c \in callers |-> IdleCall]
    /\ cascades = <<>>
    /\ ncalls = 0
    /\ nfaults = 0
    /\ cancel_token = FALSE
    /\ event_rx = "open"
    /\ StoreUnused("Some")

from_configs(service_configs) == from_configs_shared(service_configs, 1..NumCallers)

\* ------------------------------------------------------------------------
\* stop_service (service.rs 853-915)
\*
\* A running stop_service is a stack of frames [k, rest]: k is the service
\* the frame has set to Stopping and rest the reverse dependencies it has
\* still to stop.  The bottom frame (k = NoKey) is the caller of the
\* top-level stop_service: a public call, or the task spawned on a crash.
\* ------------------------------------------------------------------------
\* a variant of StopFrame that also recurses into the dependencies of k
StopFrame_with_dependencies(k, rest) ==
  [k |-> k, rest |-> IF k = NoKey THEN rest ELSE rest \o dep_keys(k)]

StopFrame(k, rest) == [k |-> k, rest |-> rest]

\* a variant of stop_service_outcome that treats a Starting or Stopping
\* service like a stopped one
stop_service_outcome_lenient(stk) ==
  LET top == stk[Len(stk)]
  IN IF top.rest # <<>>
     THEN LET key == Head(top.rest)
              popped == [stk EXCEPT ![Len(stk)] = StopFrame(top.k, Tail(top.rest))]
          IN IF service_state_map[key] = Running
             THEN [kind |-> "Stopping", key |-> key,
                   stack |-> Append(popped, StopFrame(key, rev_dep_keys(key)))]
             ELSE [kind |-> "NoOp", key |-> key, stack |-> popped]
     ELSE IF service_canceltoken_map[top.k] = 0
          THEN [kind |-> "TokenNotFound", key |-> top.k, stack |-> <<stk[1]>>]
          ELSE [kind |-> "Cancel", key |-> top.k,
                stack |-> SubSeq(stk, 1, Len(stk) - 1)]

\* what the next step of the stack does: the state gate of the next reverse
\* dependency, or the removal and cancellation of the token of the top frame
stop_service_outcome(stk) ==
  LET top == stk[Len(stk)]
  IN IF top.rest # <<>>
     THEN LET key == Head(top.rest)
              popped == [stk EXCEPT ![Len(stk)] = StopFrame(top.k, Tail(top.rest))]
              s == service_state_map[key]
          IN IF s = Running
             THEN [kind |-> "Stopping", key |-> key,
                   stack |-> Append(popped, StopFrame(key, rev_dep_keys(key)))]
             ELSE IF s \in {Starting, Stopping}
             THEN [kind |-> "MidState", key |-> key, stack |-> <<popped[1]>>]
             ELSE [kind |-> "NoOp", key |-> key, stack |-> popped]
     ELSE IF service_canceltoken_map[top.k] = 0
          THEN [kind |-> "TokenNotFound", key |-> top.k, stack |-> <<stk[1]>>]
          ELSE [kind |-> "Cancel", key |-> top.k,
                stack |-> SubSeq(stk, 1, Len(stk) - 1)]

\* a variant of stop_service_effect that marks a service it finds stopped
\* as Stopped
stop_service_effect_marking(o) ==
  /\ service_state_map' =
       IF o.kind = "Stopping"
       THEN [service_state_map EXCEPT ![o.key] = Stopping]
       ELSE IF o.kind = "NoOp"
       THEN [service_state_map EXCEPT ![o.key] = Stopped]
       ELSE service_state_map
  /\ service_canceltoken_map' =
       IF o.kind = "Cancel"
       THEN [service_canceltoken_map EXCEPT ![o.key] = 0]
       ELSE service_canceltoken_map
  /\ service_tasks' =
       IF o.kind = "Cancel"
       THEN [service_tasks EXCEPT ![service_canceltoken_map[o.key]].cancelled =
                                    service_tasks[service_canceltoken_map[o.key]].pc # "done"]
       ELSE service_tasks

\* the writes of that step
stop_service_effect(o) ==
  /\ service_state_map' =
       IF o.kind = "Stopping"
       THEN [service_state_map EXCEPT ![o.key] = Stopping]
       ELSE service_state_map
  /\ service_canceltoken_map' =
       IF o.kind = "Cancel"
       THEN [service_canceltoken_map EXCEPT ![o.key] = 0]
       ELSE service_canceltoken_map
  /\ service_tasks' =
       IF o.kind = "Cancel"
       THEN [service_tasks EXCEPT ![service_canceltoken_map[o.key]].cancelled =
                                    service_tasks[service_canceltoken_map[o.key]].pc # "done"]
       ELSE service_tasks

StackDone(stk) == Len(stk) = 1 /\ stk[1].rest = <<>>

CallFree(c) == calls[c].pc \in {"idle", "done"}

\* callers are interchangeable: a new call is made by the first caller that
\* has no call in progress; a call needs a manager that is not dropped
CanCall(c) ==
  /\ ~cancel_token
  /\ CallFree(c)
  /\ \A d \in Callers : d < c => ~CallFree(d)

\* the step enters stop_service: it runs the state gate of a service
Enters(o) == o.kind \in {"Stopping", "MidState", "NoOp"}

\* one step of a public stop_service run by caller c, whose call record is
\* call: an error of any frame is propagated by `?` through all frames and
\* ends the call.  hit holds the services the call has set to Stopping and
\* n counts the invocations of stop_service, the top-level one included.
StopStep(c, call) ==
  LET o == stop_service_outcome(call.stack)
  IN /\ stop_service_effect(o)
     /\ calls' = [calls EXCEPT ![c] =
          IF o.kind \in {"MidState", "TokenNotFound"}
          THEN [call EXCEPT !.pc = "done", !.res = o.kind, !.stack = <<>>,
                            !.n = IF Enters(o) THEN @ + 1 ELSE @]
          ELSE [call EXCEPT
                  !.pc = IF StackDone(o.stack) THEN "done" ELSE "stop",
                  !.res = IF StackDone(o.stack) THEN "Ok" ELSE "none",
                  !.stack = IF StackDone(o.stack) THEN <<>> ELSE o.stack,
                  !.hit = IF o.kind = "Stopping" THEN @ \cup {o.key} ELSE @,
                  !.n = IF Enters(o) THEN @ + 1 ELSE @]]

\* a caller invokes stop_service(key): the state gate of key
stop_service_call(c, key) ==
  /\ CanCall(c)
  /\ ncalls < MaxCalls
  /\ StopStep(c, [IdleCall EXCEPT !.op = "stop_service", !.key = key,
                                  !.stack = <<StopFrame(NoKey, <<key>>)>>])
  /\ ncalls' = ncalls + 1
  /\ UNCHANGED <<persistence, lifetime, builder, service_groups, dlq, event_chan, cascades, nfaults>>

\* the next step of a stop_service in progress
stop_service(c) ==
  /\ calls[c].pc = "stop"
  /\ StopStep(c, calls[c])
  /\ UNCHANGED <<persistence, lifetime, builder, service_groups, dlq, event_chan, cascades, ncalls, nfaults, plan>>

\* the task spawned on ServiceCrashed for the service key
CascadeTask(key) ==
  [key |-> key, stack |-> <<StopFrame(NoKey, rev_dep_keys(key))>>, hit |-> {}, n |-> 0]

\* one step of the task spawned on ServiceCrashed (service.rs 1078-1092):
\* an error of stop_service on one dependent is logged and the loop goes on
\* with the next dependent.  hit and n are those of the stop_service that
\* the loop of the task is running, or ran last.
crash_cascade(i) ==
  /\ i \in DOMAIN cascades
  /\ LET o == stop_service_outcome(cascades[i].stack)
         top_level == Len(cascades[i].stack) = 1
     IN /\ stop_service_effect(o)
        /\ cascades' =
             IF StackDone(o.stack)
             THEN SubSeq(cascades, 1, i - 1) \o SubSeq(cascades, i + 1, Len(cascades))
             ELSE [cascades EXCEPT
                     ![i].stack = o.stack,
                     ![i].hit = (IF top_level THEN {} ELSE @) \cup
                                (IF o.kind = "Stopping" THEN {o.key} ELSE {}),
                     ![i].n = (IF top_level THEN 0 ELSE @) +
                              (IF Enters(o) THEN 1 ELSE 0)]
  /\ UNCHANGED <<persistence, lifetime, builder, service_groups, dlq, event_chan, calls, ncalls, nfaults, plan>>

\* ------------------------------------------------------------------------
\* launch_service, launch_group (service.rs 574-796)
\* ------------------------------------------------------------------------
RECURSIVE SumOver(_, _)
SumOver(f, S) ==
  IF S = {} THEN 0
  ELSE LET x == CHOOSE y \in S : TRUE IN f[x] + SumOver(f, S \ {x})

\* runners the calls in progress may still spawn
PendingSpawns ==
  SumOver([c \in Callers |->
             IF calls[c].pc \in {"deps", "gate"} THEN 1 + Len(calls[c].todo)
             ELSE IF calls[c].pc = "wait" THEN Len(calls[c].todo)
             ELSE 0], Callers)

\* the call record at the entry of launch_service(meta of key)
EnterLaunch(call, key, todo) ==
  [call EXCEPT !.key = key, !.todo = todo, !.deps = dep_keys(key),
               !.pc = IF dep_keys(key) = <<>> THEN "gate" ELSE "deps"]

\* the call record when launch_service returns res
LaunchReturn(call, res) ==
  IF call.op = "launch_group" /\ res = "Ok"
  THEN [call EXCEPT !.pc = "wait", !.deps = <<>>]
  ELSE [call EXCEPT !.pc = "done", !.res = res, !.deps = <<>>]

\* the call record when the wait for one service of launch_group is over
NextMeta(call) ==
  IF call.todo = <<>>
  THEN [call EXCEPT !.pc = "done", !.res = "Ok"]
  ELSE EnterLaunch(call, Head(call.todo), Tail(call.todo))

\* a runner: its position, whether its child token is cancelled, and its
\* child process ("none" before cmd.spawn(), then "alive", then "killed",
\* "exited", or "kill_failed" when child.kill() returned an error); sent
\* records the types of the events it has passed to event_tx.send
NewTask(key) ==
  [key |-> key, pc |-> "spawn", cancelled |-> FALSE, child |-> "none", sent |-> <<>>]

\* a variant of DepsRunningStep that accepts a dependency in any state
DepsRunningStep_any_state(c, call) ==
  /\ calls' = [calls EXCEPT ![c] =
       [call EXCEPT !.deps = Tail(call.deps),
                    !.pc = IF Tail(call.deps) = <<>> THEN "gate" ELSE "deps"]]
  /\ UNCHANGED <<service_state_map, service_canceltoken_map, service_tasks>>

\* deps_running: reads the state of the next dependency; the first
\* dependency that is not Running makes launch_service return Ok(())
DepsRunningStep(c, call) ==
  /\ calls' = [calls EXCEPT ![c] =
       IF service_state_map[Head(call.deps)] = Running
       THEN [call EXCEPT !.deps = Tail(call.deps),
                         !.pc = IF Tail(call.deps) = <<>> THEN "gate" ELSE "deps"]
       ELSE LaunchReturn(call, "Ok")]
  /\ UNCHANGED <<service_state_map, service_canceltoken_map, service_tasks>>

\* a variant of LaunchGateStep that does not store the child token
LaunchGateStep_no_token(c, call) ==
  LET key == call.key
      s == service_state_map[key]
  IN IF s = Running
     THEN /\ calls' = [calls EXCEPT ![c] = LaunchReturn(call, "Ok")]
          /\ UNCHANGED <<service_state_map, service_canceltoken_map, service_tasks>>
     ELSE IF s \in {Starting, Stopping}
     THEN /\ calls' = [calls EXCEPT ![c] = LaunchReturn(call, "MidState")]
          /\ UNCHANGED <<service_state_map, service_canceltoken_map, service_tasks>>
     ELSE /\ service_state_map' = [service_state_map EXCEPT ![key] = Starting]
          /\ service_tasks' = Append(service_tasks, NewTask(key))
          /\ UNCHANGED service_canceltoken_map
          /\ calls' = [calls EXCEPT ![c] = LaunchReturn(call, "Ok")]

\* a variant of LaunchGateStep that lets a Starting or Stopping service pass
LaunchGateStep_mid_state(c, call) ==
  LET key == call.key
      s == service_state_map[key]
  IN IF s = Running
     THEN /\ calls' = [calls EXCEPT ![c] = LaunchReturn(call, "Ok")]
          /\ UNCHANGED <<service_state_map, service_canceltoken_map, service_tasks>>
     ELSE /\ service_state_map' = [service_state_map EXCEPT ![key] = Starting]
          /\ service_tasks' = Append(service_tasks, NewTask(key))
          /\ service_canceltoken_map' =
               [service_canceltoken_map EXCEPT ![key] = Len(service_tasks) + 1]
          /\ calls' = [calls EXCEPT ![c] = LaunchReturn(call, "Ok")]

\* the state gate of launch_service, the insertion of the child token and
\* the spawn of the runner
LaunchGateStep(c, call) ==
  LET key == call.key
      s == service_state_map[key]
  IN IF s = Running
     THEN /\ calls' = [calls EXCEPT ![c] = LaunchReturn(call, "Ok")]
          /\ UNCHANGED <<service_state_map, service_canceltoken_map, service_tasks>>
     ELSE IF s \in {Starting, Stopping}
     THEN /\ calls' = [calls EXCEPT ![c] = LaunchReturn(call, "MidState")]
          /\ UNCHANGED <<service_state_map, service_canceltoken_map, service_tasks>>
     ELSE /\ service_state_map' = [service_state_map EXCEPT ![key] = Starting]
          /\ service_tasks' = Append(service_tasks, NewTask(key))
          /\ service_canceltoken_map' =
               [service_canceltoken_map EXCEPT ![key] = Len(service_tasks) + 1]
          /\ calls' = [calls EXCEPT ![c] = LaunchReturn(call, "Ok")]

\* the next step of launch_service for caller c
LaunchStep(c, call) ==
  IF call.pc = "deps" THEN DepsRunningStep(c, call) ELSE LaunchGateStep(c, call)

\* a caller invokes launch_service(meta): its first read of the state map
launch_service_call(c, key) ==
  /\ CanCall(c)
  /\ ncalls < MaxCalls
  /\ Len(service_tasks) + PendingSpawns + 1 <= MaxRunners
  /\ LaunchStep(c, EnterLaunch([IdleCall EXCEPT !.op = "launch_service"], key, <<>>))
  /\ ncalls' = ncalls + 1
  /\ UNCHANGED <<persistence, lifetime, builder, service_groups, dlq, event_chan, cascades, nfaults>>

\* a caller invokes launch_group(g, timeout): toposort, and the first read
\* of launch_service on the first service
launch_group_call(c, g) ==
  /\ CanCall(c)
  /\ ncalls < MaxCalls
  /\ g \in DOMAIN service_groups
  /\ Len(service_tasks) + PendingSpawns + Cardinality(service_groups[g].nodes)
       <= MaxRunners
  /\ \E order \in toposort(service_groups[g]) :
       LaunchStep(c, EnterLaunch([IdleCall EXCEPT !.op = "launch_group"],
                                 Head(order), Tail(order)))
  /\ ncalls' = ncalls + 1
  /\ UNCHANGED <<persistence, lifetime, builder, service_groups, dlq, event_chan, cascades, nfaults>>

\* deps_running of a launch_service in progress
deps_running(c) ==
  /\ calls[c].pc = "deps"
  /\ DepsRunningStep(c, calls[c])
  /\ UNCHANGED <<persistence, lifetime, builder, service_groups, dlq, event_chan, cascades, ncalls, nfaults, plan>>

\* the state gate of a launch_service in progress
launch_service(c) ==
  /\ calls[c].pc = "gate"
  /\ LaunchGateStep(c, calls[c])
  /\ UNCHANGED <<persistence, lifetime, builder, service_groups, dlq, event_chan, cascades, ncalls, nfaults, plan>>

\* wait_service_running: a poll that ends the wait (Running, or a state that
\* is neither Starting nor Running); a poll that sees Starting changes nothing
wait_service_running(c) ==
  /\ calls[c].pc = "wait"
  /\ service_state_map[calls[c].key] # Starting
  /\ calls' = [calls EXCEPT ![c] = NextMeta(@)]
  /\ UNCHANGED <<persistence, lifetime, builder, service_groups, dlq, service_state_map, service_canceltoken_map,
                 service_tasks, event_chan, cascades, ncalls, nfaults, plan>>

\* a variant of service_start_timeout that fails the call
service_start_timeout_fails(c) ==
  /\ calls[c].pc = "wait"
  /\ service_state_map[calls[c].key] = Starting
  /\ calls' = [calls EXCEPT ![c] = [@ EXCEPT !.pc = "done", !.res = "Timeout",
                                              !.todo = <<>>, !.tmo = TRUE]]
  /\ UNCHANGED <<persistence, lifetime, builder, service_groups, dlq, service_state_map, service_canceltoken_map,
                 service_tasks, event_chan, cascades, ncalls, nfaults, plan>>

\* tokio::time::timeout elapses while the service is still Starting
service_start_timeout(c) ==
  /\ calls[c].pc = "wait"
  /\ service_state_map[calls[c].key] = Starting
  /\ calls' = [calls EXCEPT ![c] = [NextMeta(@) EXCEPT !.tmo = TRUE]]
  /\ UNCHANGED <<persistence, lifetime, builder, service_groups, dlq, service_state_map, service_canceltoken_map,
                 service_tasks, event_chan, cascades, ncalls, nfaults, plan>>

\* ------------------------------------------------------------------------
\* service_task (service.rs 380-465)
\* ------------------------------------------------------------------------
\* event_tx.send(event).await returns: there is room in the channel, or the
\* receiver is dropped and send returns an error, which is logged
ChannelHasRoom == event_rx = "closed" \/ Len(event_chan) < EventChannelCapacity

Send(event) ==
  event_chan' = IF event_rx = "closed" THEN event_chan ELSE Append(event_chan, event)

\* cmd.spawn() succeeds: ServiceStarted is sent and the task waits in select!
service_task_started(r) ==
  /\ r \in DOMAIN service_tasks
  /\ service_tasks[r].pc = "spawn"
  /\ ChannelHasRoom
  /\ Send(ServiceStarted(service_tasks[r].key))
  /\ service_tasks' = [service_tasks EXCEPT ![r] = [@ EXCEPT !.pc = "wait", !.child = "alive",
                                                            !.sent = Append(@, "ServiceStarted")]]
  /\ UNCHANGED <<persistence, lifetime, builder, service_groups, dlq, service_state_map, service_canceltoken_map,
                 calls, cascades, ncalls, nfaults, plan>>

\* cmd.spawn() fails: ServiceCrashed is sent and the task returns
service_task_spawn_failed(r) ==
  /\ r \in DOMAIN service_tasks
  /\ service_tasks[r].pc = "spawn"
  /\ nfaults < MaxFaults
  /\ ChannelHasRoom
  /\ Send(ServiceCrashed(service_tasks[r].key, SpawnFailedReason))
  /\ service_tasks' = [service_tasks EXCEPT ![r] = [@ EXCEPT !.pc = "done", !.cancelled = FALSE,
                                                            !.sent = Append(@, "ServiceCrashed")]]
  /\ nfaults' = nfaults + 1
  /\ UNCHANGED <<persistence, lifetime, builder, service_groups, dlq, service_state_map, service_canceltoken_map,
                 calls, cascades, ncalls, plan>>

\* a variant of service_task_cancelled that returns to select! after the
\* kill
service_task_cancelled_again(r) ==
  /\ r \in DOMAIN service_tasks
  /\ service_tasks[r].pc = "wait"
  /\ service_tasks[r].cancelled
  /\ ChannelHasRoom
  /\ Send(ServiceStopped(service_tasks[r].key))
  /\ service_tasks' = [service_tasks EXCEPT ![r] =
       [@ EXCEPT !.cancelled = FALSE, !.child = "killed",
                 !.sent = Append(@, "ServiceStopped")]]
  /\ UNCHANGED <<persistence, lifetime, builder, service_groups, dlq, service_state_map, service_canceltoken_map,
                 calls, cascades, ncalls, nfaults, plan>>

\* select!: the token is cancelled, the child is killed
service_task_cancelled(r) ==
  /\ r \in DOMAIN service_tasks
  /\ service_tasks[r].pc = "wait"
  /\ service_tasks[r].cancelled
  /\ ChannelHasRoom
  /\ Send(ServiceStopped(service_tasks[r].key))
  /\ service_tasks' = [service_tasks EXCEPT ![r] =
       [@ EXCEPT !.pc = "done", !.cancelled = FALSE, !.child = "killed",
                 !.sent = Append(@, "ServiceStopped")]]
  /\ UNCHANGED <<persistence, lifetime, builder, service_groups, dlq, service_state_map, service_canceltoken_map,
                 calls, cascades, ncalls, nfaults, plan>>

\* select!: the token is cancelled, child.kill() fails
service_task_kill_failed(r) ==
  /\ r \in DOMAIN service_tasks
  /\ service_tasks[r].pc = "wait"
  /\ service_tasks[r].cancelled
  /\ nfaults < MaxFaults
  /\ ChannelHasRoom
  /\ Send(ServiceCrashed(service_tasks[r].key, KillFailedReason))
  /\ service_tasks' = [service_tasks EXCEPT ![r] =
       [@ EXCEPT !.pc = "done", !.cancelled = FALSE, !.child = "kill_failed",
                 !.sent = Append(@, "ServiceCrashed")]]
  /\ nfaults' = nfaults + 1
  /\ UNCHANGED <<persistence, lifetime, builder, service_groups, dlq, service_state_map, service_canceltoken_map,
                 calls, cascades, ncalls, plan>>

\* select!: child.wait() returns, the child exited on its own (any status)
service_task_exited(r) ==
  /\ r \in DOMAIN service_tasks
  /\ service_tasks[r].pc = "wait"
  /\ nfaults < MaxFaults
  /\ ChannelHasRoom
  /\ \E reason \in {ExitStatusReason, ExitErrorReason} :
       Send(ServiceCrashed(service_tasks[r].key, reason))
  /\ service_tasks' = [service_tasks EXCEPT ![r] =
       [@ EXCEPT !.pc = "done", !.cancelled = FALSE, !.child = "exited",
                 !.sent = Append(@, "ServiceCrashed")]]
  /\ nfaults' = nfaults + 1
  /\ UNCHANGED <<persistence, lifetime, builder, service_groups, dlq, service_state_map, service_canceltoken_map,
                 calls, cascades, ncalls, plan>>

\* ------------------------------------------------------------------------
\* handle_service_manager_event (service.rs 993-1097)
\* ------------------------------------------------------------------------
\* a variant of Received for a loop that takes an event only when the
\* channel has room for one more
Received_with_room(type) ==
  /\ event_rx = "open"
  /\ ~cancel_token
  /\ event_chan # <<>>
  /\ Len(event_chan) < EventChannelCapacity
  /\ Head(event_chan).type = type

\* event_rx.recv() returns an event of that type and manager.upgrade()
\* succeeds
Received(type) ==
  /\ event_rx = "open"
  /\ ~cancel_token
  /\ event_chan # <<>>
  /\ Head(event_chan).type = type

on_service_started ==
  /\ Received("ServiceStarted")
  /\ LET key == Head(event_chan).service_key
     IN service_state_map' =
          IF key \in DOMAIN service_state_map /\ service_state_map[key] = Starting
          THEN [service_state_map EXCEPT ![key] = Running]
          ELSE service_state_map
  /\ event_chan' = Tail(event_chan)
  /\ UNCHANGED <<persistence, lifetime, builder, service_groups, dlq, service_canceltoken_map, service_tasks,
                 calls, cascades, ncalls, nfaults, plan>>

\* a variant of on_service_stopped that drops the event
on_service_stopped_dropped ==
  /\ Received("ServiceStopped")
  /\ event_chan' = Tail(event_chan)
  /\ UNCHANGED <<persistence, lifetime, builder, service_groups, dlq, service_state_map,
                 service_canceltoken_map, service_tasks,
                 calls, cascades, ncalls, nfaults, plan>>

\* a variant of on_service_stopped that writes Stopped over any state
on_service_stopped_any_state ==
  /\ Received("ServiceStopped")
  /\ LET key == Head(event_chan).service_key
     IN service_state_map' = [service_state_map EXCEPT ![key] = Stopped]
  /\ event_chan' = Tail(event_chan)
  /\ UNCHANGED <<persistence, lifetime, builder, service_groups, dlq, service_canceltoken_map, service_tasks,
                 calls, cascades, ncalls, nfaults, plan>>

on_service_stopped ==
  /\ Received("ServiceStopped")
  /\ LET key == Head(event_chan).service_key
     IN service_state_map' =
          IF key \in DOMAIN service_state_map /\ service_state_map[key] = Stopping
          THEN [service_state_map EXCEPT ![key] = Stopped]
          ELSE service_state_map
  /\ event_chan' = Tail(event_chan)
  /\ UNCHANGED <<persistence, lifetime, builder, service_groups, dlq, service_canceltoken_map, service_tasks,
                 calls, cascades, ncalls, nfaults, plan>>

\* a variant of on_service_crashed that writes Failed over Running only
on_service_crashed_running_only ==
  /\ Received("ServiceCrashed")
  /\ LET key == Head(event_chan).service_key
     IN /\ service_canceltoken_map' = [service_canceltoken_map EXCEPT ![key] = 0]
        /\ service_state_map' =
             IF service_state_map[key] = Running
             THEN [service_state_map EXCEPT ![key] = Failed(Head(event_chan).reason)]
             ELSE service_state_map
        /\ cascades' =
             IF rev_dep_keys(key) = <<>> THEN cascades
             ELSE Append(cascades, CascadeTask(key))
  /\ event_chan' = Tail(event_chan)
  /\ UNCHANGED <<persistence, lifetime, builder, service_groups, dlq, service_tasks, calls, ncalls, nfaults, plan>>

on_service_crashed ==
  /\ Received("ServiceCrashed")
  /\ LET key == Head(event_chan).service_key
     IN IF key \notin DOMAIN service_state_map
        THEN UNCHANGED <<service_canceltoken_map, service_state_map, cascades>>
        ELSE /\ service_canceltoken_map' = [service_canceltoken_map EXCEPT ![key] = 0]
             /\ service_state_map' =
                  [service_state_map EXCEPT ![key] = Failed(Head(event_chan).reason)]
             /\ cascades' =
                  IF rev_dep_keys(key) = <<>> THEN cascades
                  ELSE Append(cascades, CascadeTask(key))
  /\ event_chan' = Tail(event_chan)
  /\ UNCHANGED <<persistence, lifetime, builder, service_groups, dlq, service_tasks, calls, ncalls, nfaults, plan>>

\* the event loop returns (service.rs 997-1004, 1096): recv() gives an event
\* and manager.upgrade() fails, or recv() gives None because the manager and
\* every runner have dropped their Sender; the Receiver is dropped with the
\* events it holds
handle_service_manager_event_returns ==
  /\ event_rx = "open"
  /\ cancel_token
  /\ \/ event_chan # <<>>
     \/ \A r \in DOMAIN service_tasks : service_tasks[r].pc = "done"
  /\ event_rx' = "closed"
  /\ event_chan' = <<>>
  /\ UNCHANGED <<persistence, cancel_token, builder, service_groups, dlq, service_state_map,
                 service_canceltoken_map, service_tasks, calls, cascades, ncalls,
                 nfaults, plan>>

\* a variant of drop that reaches the runners of Running services only
drop_running_only ==
  /\ ~cancel_token
  /\ \A c \in Callers : CallFree(c)
  /\ cascades = <<>>
  /\ cancel_token' = TRUE
  /\ service_tasks' =
       [r \in DOMAIN service_tasks |->
          IF service_state_map[service_tasks[r].key] = Running
          THEN [service_tasks[r] EXCEPT !.cancelled = service_tasks[r].pc # "done"]
          ELSE service_tasks[r]]
  /\ UNCHANGED <<persistence, event_rx, builder, service_groups, dlq, service_state_map,
                 service_canceltoken_map, event_chan, calls, cascades, ncalls,
                 nfaults, plan>>

\* Drop for ServiceManager (service.rs 985-991), run when the last Arc goes:
\* no call borrows the manager and no cascade task holds a clone of the Arc.
\* Cancelling the root token cancels every child token made by
\* launch_service (service.rs 691), in the cancel-token map or not.
drop ==
  /\ ~cancel_token
  /\ \A c \in Callers : CallFree(c)
  /\ cascades = <<>>
  /\ cancel_token' = TRUE
  /\ service_tasks' =
       [r \in DOMAIN service_tasks |->
          [service_tasks[r] EXCEPT !.cancelled = service_tasks[r].pc # "done"]]
  /\ UNCHANGED <<persistence, event_rx, builder, service_groups, dlq, service_state_map,
                 service_canceltoken_map, event_chan, calls, cascades, ncalls,
                 nfaults, plan>>

\* ------------------------------------------------------------------------
\* ServiceManager::set_service_state (service.rs 533-536): a public method
\* that overwrites the state of a service
\* ------------------------------------------------------------------------
ServiceStates ==
  {Pending, Starting, Running, Stopping, Stopped, Skipped,
   Failed(SpawnFailedReason), Failed(KillFailedReason),
   Failed(ExitStatusReason), Failed(ExitErrorReason)}

set_service_state(key, state) ==
  /\ ncalls < MaxCalls
  /\ service_state_map' = [service_state_map EXCEPT ![key] = state]
  /\ ncalls' = ncalls + 1
  /\ UNCHANGED <<persistence, lifetime, builder, service_groups, dlq, service_canceltoken_map, service_tasks,
                 event_chan, calls, cascades, nfaults, plan>>

\* ------------------------------------------------------------------------
\* Callers that follow a plan: a sequence of calls, each made when its
\* condition holds
\* ------------------------------------------------------------------------
PlannedCall(op, key, g, when) == [op |-> op, key |-> key, g |-> g, when |-> when]

AllRunning == \A k \in ServiceKeys : service_state_map[k] = Running

PlanReady(op) ==
  /\ plan # <<>>
  /\ Head(plan).op = op
  /\ Head(plan).when = "all_running" => AllRunning

planned_launch_group(c) ==
  /\ PlanReady("launch_group")
  /\ launch_group_call(c, Head(plan).g)
  /\ plan' = Tail(plan)

planned_stop_service(c) ==
  /\ PlanReady("stop_service")
  /\ stop_service_call(c, Head(plan).key)
  /\ plan' = Tail(plan)

\* launch_group(g), then stop_service on each root of the group once every
\* service is Running
StopGroupPlans(g) ==
  {<<PlannedCall("launch_group", NoKey, g, "any")>> \o
   [i \in DOMAIN roots |->
      PlannedCall("stop_service", roots[i], g,
                  IF i = 1 THEN "all_running" ELSE "any")] :
   roots \in SetToSeqs(group_root_service_keys(g))}

\* a child process exits on its own while every service is Running
child_exits_all_running(r) ==
  /\ AllRunning
  /\ service_task_exited(r)

\* ------------------------------------------------------------------------
\* The stages of build_groups_from_configs (service.rs 330-344) and of
\* from_configs (service.rs 488-509), on bounded lists of configs
\* ------------------------------------------------------------------------
ProgramConfig(n, p, deps) ==
  [name |-> n, version |-> "v1", program |-> p, args |-> <<>>,
   dependencies |-> deps, workspace |-> None]

\* configs that make duplicates (with the same and with another program),
\* missing dependencies, self-dependencies, cycles and several groups
ConfigPool ==
  {ProgramConfig("A", "p", <<>>), ProgramConfig("A", "q", <<>>),
   ProgramConfig("A", "p", <<kA>>), ProgramConfig("A", "p", <<kB>>),
   ProgramConfig("A", "p", <<kA, kB>>),
   ProgramConfig("B", "p", <<>>), ProgramConfig("B", "p", <<kA>>),
   ProgramConfig("B", "p", <<kC>>),
   ProgramConfig("C", "p", <<>>), ProgramConfig("C", "p", <<kB>>),
   ProgramConfig("C", "p", <<kA, kB>>)}

BuildInputs == UNION {[1..n -> ConfigPool] : n \in 0..MaxConfigs}

InitBuild ==
  /\ builder \in {[stage |-> "configs", service_configs |-> cs,
                   service_infos |-> <<>>, service_key_groups |-> <<>>,
                   ret |-> <<>>, passes |-> 0] : cs \in BuildInputs}
  /\ service_groups = <<>>
  /\ dlq = <<>>
  /\ service_state_map = <<>>
  /\ service_canceltoken_map = <<>>
  /\ service_tasks = <<>>
  /\ event_chan = <<>>
  /\ calls = [c \in 1..NumCallers |-> IdleCall]
  /\ cascades = <<>>
  /\ ncalls = 0
  /\ nfaults = 0
  /\ plan = <<>>
  /\ cancel_token = FALSE
  /\ event_rx = "open"
  /\ StoreUnused("None")

ManagerUntouched ==
  UNCHANGED <<service_groups, service_state_map, service_canceltoken_map,
              service_tasks, event_chan, calls, cascades, ncalls, nfaults, plan,
              persistence, lifetime>>

\* service.rs 335: validate_service_name_unique
BuildUnique ==
  /\ builder.stage = "configs"
  /\ LET u == validate_service_name_unique(builder.service_configs, <<>>, dlq)
     IN /\ builder' = [builder EXCEPT !.stage = "unique",
                                      !.service_infos = u.service_infos]
        /\ dlq' = u.dlq
  /\ ManagerUntouched

\* a variant of BuildDependencies that makes one pass only
BuildDependencies_single_pass ==
  /\ builder.stage = "unique"
  /\ \E order \in SetToSeqs(RemovedServices(builder.service_infos)) :
       LET r == DependencyPass(builder.service_infos, dlq, order)
       IN /\ builder' = [builder EXCEPT !.stage = "validated",
                                        !.service_infos = r.service_infos,
                                        !.passes = @ + 1]
          /\ dlq' = r.dlq
  /\ ManagerUntouched

\* service.rs 336 (validate_service_dependencies, 131-173): one pass of the
\* while loop; the pass that removes nothing ends the loop
BuildDependencies ==
  /\ builder.stage = "unique"
  /\ \E order \in SetToSeqs(RemovedServices(builder.service_infos)) :
       LET r == DependencyPass(builder.service_infos, dlq, order)
       IN /\ builder' = [builder EXCEPT
                           !.stage = IF order = <<>> THEN "validated" ELSE "unique",
                           !.service_infos = r.service_infos,
                           !.passes = @ + 1]
          /\ dlq' = r.dlq
  /\ ManagerUntouched

\* service.rs 337: split_services
BuildSplit ==
  /\ builder.stage = "validated"
  /\ \E kg \in split_services(builder.service_infos) :
       builder' = [builder EXCEPT !.stage = "split", !.service_key_groups = kg]
  /\ UNCHANGED dlq
  /\ ManagerUntouched

\* service.rs 338-342: one iteration of the loop over the key groups
BuildGroup ==
  /\ builder.stage = "split"
  /\ builder.service_key_groups # <<>>
  /\ LET r == build_service_group(Head(builder.service_key_groups),
                                  builder.service_infos, dlq)
     IN /\ builder' = [builder EXCEPT
                         !.service_key_groups = Tail(@),
                         !.service_infos = r.service_infos,
                         !.ret = IF r.built THEN Append(@, r.group) ELSE @]
        /\ dlq' = r.dlq
  /\ ManagerUntouched

\* service.rs 343: build_groups_from_configs returns ret
BuildReturn ==
  /\ builder.stage = "split"
  /\ builder.service_key_groups = <<>>
  /\ builder' = [builder EXCEPT !.stage = "built"]
  /\ UNCHANGED dlq
  /\ ManagerUntouched

\* service.rs 494-508: the maps and the manager
BuildManager ==
  /\ builder.stage = "built"
  /\ service_groups' = [g \in DOMAIN builder.ret |-> ManagedGroup(builder.ret[g])]
  /\ service_state_map' =
       build_service_state_map([g \in DOMAIN builder.ret |-> ManagedGroup(builder.ret[g])])
  /\ service_canceltoken_map' =
       [k \in UNION {GroupKeys(ManagedGroup(builder.ret[g])) : g \in DOMAIN builder.ret}
          |-> 0]
  /\ builder' = [NoBuilder EXCEPT !.service_configs = builder.service_configs,
                                  !.ret = builder.ret,
                                  !.passes = builder.passes]
  /\ UNCHANGED <<dlq, service_tasks, event_chan, calls, cascades, ncalls,
                 nfaults, plan, persistence, lifetime>>

NextBuild ==
  \/ BuildUnique
  \/ BuildDependencies
  \/ BuildSplit
  \/ BuildGroup
  \/ BuildReturn
  \/ BuildManager

SpecBuild == InitBuild /\ [][NextBuild]_vars

\* ------------------------------------------------------------------------
\* Specifications
\* ------------------------------------------------------------------------
RuntimeInputs == {ChainConfigs, FanInConfigs, TriangleConfigs}

Init ==
  /\ \E service_configs \in RuntimeInputs : from_configs(service_configs)
  /\ plan = <<>>

\* a manager of the services A, B (which depends on A) and MaxWaiting
\* services without dependencies, after launch_service on each of them: A is
\* Running; the runners of the services without dependencies have sent
\* ServiceStarted, and the event loop has not taken these events yet; the
\* runner of B is about to spawn its child
WaitingKey(i) == <<"D" \o ToString(i), "v1">>

WaitingGroup(i) ==
  [nodes |-> {ServiceMeta(ServiceConfig(WaitingKey(i)[1], <<>>))}, edges |-> <<>>]

InitChannel ==
  /\ builder = NoBuilder
  /\ service_groups =
       << [nodes |-> {ServiceMeta(ServiceConfig("A", <<>>)),
                      ServiceMeta(ServiceConfig("B", <<kA>>))},
           edges |-> << <<kA, kB>> >>] >> \o
       [i \in 1..MaxWaiting |-> WaitingGroup(i)]
  /\ dlq = <<>>
  /\ service_state_map =
       [k \in {kA, kB} \cup {WaitingKey(i) : i \in 1..MaxWaiting} |->
          IF k = kA THEN Running ELSE Starting]
  /\ service_tasks =
       << [NewTask(kA) EXCEPT !.pc = "wait", !.child = "alive",
                              !.sent = <<"ServiceStarted">>],
          NewTask(kB) >> \o
       [i \in 1..MaxWaiting |->
          [NewTask(WaitingKey(i)) EXCEPT !.pc = "wait", !.child = "alive",
                                         !.sent = <<"ServiceStarted">>]]
  /\ service_canceltoken_map =
       [k \in {kA, kB} \cup {WaitingKey(i) : i \in 1..MaxWaiting} |->
          IF k = kA THEN 1
          ELSE IF k = kB THEN 2
          ELSE 2 + CHOOSE i \in 1..MaxWaiting : WaitingKey(i) = k]
  /\ event_chan = [i \in 1..MaxWaiting |-> ServiceStarted(WaitingKey(i))]
  /\ calls = [c \in 1..NumCallers |-> IdleCall]
  /\ cascades = <<>>
  /\ ncalls = 0
  /\ nfaults = 0
  /\ cancel_token = FALSE
  /\ event_rx = "open"
  /\ StoreUnused("Some")
  /\ plan = <<>>

\* the runners, the event loop and the tasks spawned on a crash, while no
\* call is made
NextChannel ==
  \/ \E r \in DOMAIN service_tasks : service_task_started(r)
  \/ \E r \in DOMAIN service_tasks : service_task_spawn_failed(r)
  \/ \E r \in DOMAIN service_tasks : service_task_cancelled(r)
  \/ \E r \in DOMAIN service_tasks : service_task_exited(r)
  \/ on_service_started
  \/ on_service_stopped
  \/ on_service_crashed
  \/ \E i \in DOMAIN cascades : crash_cascade(i)

\* the steps of the calls in progress
CallSteps ==
  \/ \E c \in Callers : stop_service(c)
  \/ \E c \in Callers : deps_running(c)
  \/ \E c \in Callers : launch_service(c)

\* the runners and the event loop when no process fails
Supervision ==
  \/ \E r \in DOMAIN service_tasks : service_task_started(r)
  \/ \E r \in DOMAIN service_tasks : service_task_cancelled(r)
  \/ on_service_started
  \/ on_service_stopped

\* spawn failures, kill failures, self-exits and their handling
Faults ==
  \/ \E r \in DOMAIN service_tasks : service_task_spawn_failed(r)
  \/ \E r \in DOMAIN service_tasks : service_task_kill_failed(r)
  \/ \E r \in DOMAIN service_tasks : service_task_exited(r)
  \/ on_service_crashed
  \/ \E i \in DOMAIN cascades : crash_cascade(i)

\* launch_group's wait
GroupWait ==
  \/ \E c \in Callers : wait_service_running(c)
  \/ \E c \in Callers : service_start_timeout(c)

\* any number of callers making any calls, with process failures
Next ==
  \/ \E c \in Callers, key \in ServiceKeys : stop_service_call(c, key) /\ UNCHANGED plan
  \/ \E c \in Callers, key \in ServiceKeys : launch_service_call(c, key) /\ UNCHANGED plan
  \/ \E c \in Callers, g \in DOMAIN service_groups : launch_group_call(c, g) /\ UNCHANGED plan
  \/ CallSteps
  \/ GroupWait
  \/ Supervision
  \/ Faults

Spec == Init /\ [][Next]_vars

\* the same on a manager that holds two groups
InitGroups ==
  /\ from_configs(DisjointConfigs)
  /\ plan = <<>>

SpecGroups == InitGroups /\ [][Next]_vars

\* the manager of two services held by several tasks that call it
\* concurrently
InitConcurrent ==
  /\ from_configs_shared(PairConfigs, 1..NumTasks)
  /\ plan = <<>>

SpecConcurrent == InitConcurrent /\ [][Next]_vars

\* one caller making one call after the other, with process failures
NextSeq ==
  \/ \E key \in ServiceKeys : stop_service_call(1, key) /\ UNCHANGED plan
  \/ \E key \in ServiceKeys : launch_service_call(1, key) /\ UNCHANGED plan
  \/ \E g \in DOMAIN service_groups : launch_group_call(1, g) /\ UNCHANGED plan
  \/ stop_service(1)
  \/ deps_running(1)
  \/ launch_service(1)
  \/ wait_service_running(1)
  \/ service_start_timeout(1)
  \/ Supervision
  \/ Faults

SpecSeq == Init /\ [][NextSeq]_vars

\* the same caller, and the manager dropped at any moment between two calls
NextDrop ==
  \/ NextSeq
  \/ drop
  \/ handle_service_manager_event_returns

\* the tokio runtime keeps polling the runners, the event loop and the
\* cascade tasks: each of them takes its next step when it can
Scheduling ==
  /\ \A r \in 1..MaxRunners :
        WF_vars(service_task_started(r) \/ service_task_cancelled(r))
  /\ WF_vars(on_service_started \/ on_service_stopped \/ on_service_crashed)
  /\ WF_vars(handle_service_manager_event_returns)
  /\ WF_vars(\E i \in DOMAIN cascades : crash_cascade(i))

\* a manager of three services in a chain
InitDrop ==
  /\ from_configs(ChainConfigs)
  /\ plan = <<>>

SpecDrop == InitDrop /\ [][NextDrop]_vars /\ Scheduling

SpecChannel == InitChannel /\ [][NextChannel]_vars /\ Scheduling

\* the caller is a task of the same runtime: the call it has made takes its
\* next step when it can
CallProgress ==
  /\ WF_vars(stop_service(1))
  /\ WF_vars(deps_running(1) \/ launch_service(1))
  /\ WF_vars(wait_service_running(1) \/ service_start_timeout(1))

\* one caller on a manager that stays alive, every task making progress
SpecProgress == Init /\ [][NextSeq]_vars /\ Scheduling /\ CallProgress

\* callers that also use set_service_state; no process failures
NextSet ==
  \/ \E key \in ServiceKeys, state \in ServiceStates : set_service_state(key, state)
  \/ \E key \in ServiceKeys : stop_service_call(1, key) /\ UNCHANGED plan
  \/ \E key \in ServiceKeys : launch_service_call(1, key) /\ UNCHANGED plan
  \/ stop_service(1)
  \/ deps_running(1)
  \/ launch_service(1)
  \/ Supervision

SpecSet == Init /\ [][NextSet]_vars

\* launch_group on a fresh manager, with timeouts, spawn failures and
\* self-exits
InitLaunchGroup ==
  /\ \E service_configs \in RuntimeInputs : from_configs(service_configs)
  /\ plan = <<PlannedCall("launch_group", NoKey, 1, "any")>>

NextLaunchGroup ==
  \/ planned_launch_group(1)
  \/ deps_running(1)
  \/ launch_service(1)
  \/ wait_service_running(1)
  \/ service_start_timeout(1)
  \/ Supervision
  \/ \E r \in DOMAIN service_tasks : service_task_spawn_failed(r)
  \/ \E r \in DOMAIN service_tasks : service_task_exited(r)
  \/ on_service_crashed
  \/ \E i \in DOMAIN cascades : crash_cascade(i)

SpecLaunchGroup == InitLaunchGroup /\ [][NextLaunchGroup]_vars

\* launch_group, then stop_service on every root; no process failures and
\* no timeout
InitStopGroup ==
  /\ \E service_configs \in RuntimeInputs : from_configs(service_configs)
  /\ plan \in StopGroupPlans(1)

NextStopGroup ==
  \/ planned_launch_group(1)
  \/ planned_stop_service(1)
  \/ stop_service(1)
  \/ deps_running(1)
  \/ launch_service(1)
  \/ wait_service_running(1)
  \/ Supervision

SpecStopGroup == InitStopGroup /\ [][NextStopGroup]_vars

\* launch_group, then one child exits on its own while every service is
\* Running; no other failure and no timeout
NextCrash ==
  \/ planned_launch_group(1)
  \/ deps_running(1)
  \/ launch_service(1)
  \/ wait_service_running(1)
  \/ Supervision
  \/ \E r \in DOMAIN service_tasks : child_exits_all_running(r)
  \/ on_service_crashed
  \/ \E i \in DOMAIN cascades : crash_cascade(i)

SpecCrash == InitLaunchGroup /\ [][NextCrash]_vars

\* ------------------------------------------------------------------------
\* Alias remapping (src-tauri service.rs 491-554)
\* ------------------------------------------------------------------------
RECURSIVE is_subset_loop(_, _, _, _)
\* the while loop of is_subset (501-513); the indices count from 1
is_subset_loop(child, parent, child_idx, parent_idx) ==
  IF child_idx <= Len(child) /\ parent_idx <= Len(parent)
  THEN is_subset_loop(child, parent,
         IF child[child_idx] = parent[parent_idx] THEN child_idx + 1 ELSE child_idx,
         parent_idx + 1)
  ELSE child_idx = Len(child) + 1

\* a variant of is_subset that tests set containment
is_subset_as_sets(child, parent) == Range(child) \subseteq Range(parent)

is_subset(child, parent) == is_subset_loop(child, parent, 1, 1)

\* is_match of map_alias (540-546): the shorter list is tested against the
\* longer one
is_match(prev_service_names, curr_service_names) ==
  IF Len(prev_service_names) <= Len(curr_service_names)
  THEN is_subset(prev_service_names, curr_service_names)
  ELSE is_subset(curr_service_names, prev_service_names)

\* a variant of AliasScan that does not look at match_flags
RECURSIVE AliasScan_unflagged(_, _, _, _)
AliasScan_unflagged(entry, curr, idx, acc) ==
  IF idx > Len(curr) THEN acc
  ELSE IF is_match(entry.service_names, curr[idx].service_names)
  THEN AliasScan_unflagged(entry, curr, idx + 1,
         [match_flags |-> [acc.match_flags EXCEPT ![idx] = TRUE],
          ret |-> Append(acc.ret, [group_id |-> curr[idx].group_id,
                                   alias |-> entry.alias])])
  ELSE AliasScan_unflagged(entry, curr, idx + 1, acc)

\* the inner loop of map_alias (533-551) for one prev entry: every curr
\* entry that is not flagged and matches is flagged and gets the alias; the
\* loop goes on after a match
RECURSIVE AliasScan(_, _, _, _)
AliasScan(entry, curr, idx, acc) ==
  IF idx > Len(curr) THEN acc
  ELSE IF acc.match_flags[idx] THEN AliasScan(entry, curr, idx + 1, acc)
  ELSE IF is_match(entry.service_names, curr[idx].service_names)
  THEN AliasScan(entry, curr, idx + 1,
         [match_flags |-> [acc.match_flags EXCEPT ![idx] = TRUE],
          ret |-> Append(acc.ret, [group_id |-> curr[idx].group_id,
                                   alias |-> entry.alias])])
  ELSE AliasScan(entry, curr, idx + 1, acc)

\* the outer loop of map_alias (531-552)
RECURSIVE AliasOuter(_, _, _)
AliasOuter(prev, curr, acc) ==
  IF prev = <<>> THEN acc
  ELSE AliasOuter(Tail(prev), curr, AliasScan(Head(prev), curr, 1, acc))

\* map_alias (525-554): prev is a list of [alias, service_names], curr a
\* list of [group_id, service_names]; the result is a list of
\* [group_id, alias]
map_alias(prev, curr) ==
  AliasOuter(prev, curr,
             [match_flags |-> [i \in DOMAIN curr |-> FALSE], ret |-> <<>>]).ret

\* name lists as migrate_group_alias builds them: sorted; a name occurs
\* twice when a group holds two versions of a service
NameLists ==
  {<<>>, <<"A">>, <<"B">>, <<"C">>, <<"A", "A">>, <<"A", "B">>,
   <<"A", "B", "D">>, <<"A", "B", "C", "D">>}

Aliases == <<"frontends", "backend", "tools">>

\* prev: the rows of service_group_alias with the names of their members
PrevInputs ==
  UNION {{[i \in 1..n |-> [alias |-> Aliases[i], service_names |-> l[i]]] :
            l \in [1..n -> NameLists]} :
         n \in 0..(IF MaxAliasGroups < Len(Aliases) THEN MaxAliasGroups ELSE Len(Aliases))}

\* curr: the groups of the manager, numbered from 0; a group has a member
CurrInputs ==
  UNION {{[i \in 1..n |-> [group_id |-> i - 1, service_names |-> l[i]]] :
            l \in [1..n -> NameLists \ {<<>>}]} :
         n \in 0..MaxAliasGroups}

\* any lists of names
SubsetInputs == UNION {[1..n -> {"A", "B"}] : n \in 0..MaxNames}

\* no manager is built
NoManager ==
  /\ builder = NoBuilder
  /\ service_groups = <<>>
  /\ dlq = <<>>
  /\ service_state_map = <<>>
  /\ service_canceltoken_map = <<>>
  /\ service_tasks = <<>>
  /\ event_chan = <<>>
  /\ calls = [c \in 1..NumCallers |-> IdleCall]
  /\ cascades = <<>>
  /\ ncalls = 0
  /\ nfaults = 0
  /\ plan = <<>>
  /\ cancel_token = FALSE
  /\ event_rx = "open"

InitAlias ==
  /\ NoManager
  /\ db = EmptyStore
  /\ app_state = [service_manager |-> "None"]
  /\ \/ \E x \in SubsetInputs, y \in SubsetInputs :
          command = [op |-> "is_subset", pc |-> "called", args |-> <<x, y>>,
                     ret |-> <<>>, after |-> NoCommand.after]
     \/ \E prev \in PrevInputs, curr \in CurrInputs :
          command = [op |-> "map_alias", pc |-> "called", args |-> <<prev, curr>>,
                     ret |-> <<>>, after |-> NoCommand.after]

is_subset_returns ==
  /\ command.op = "is_subset"
  /\ command.pc = "called"
  /\ command' = [command EXCEPT !.pc = "returned",
                                 !.ret = is_subset(command.args[1], command.args[2])]
  /\ UNCHANGED <<db, app_state, lifetime, builder, service_groups, dlq, service_state_map,
                 service_canceltoken_map, service_tasks, event_chan, calls, cascades,
                 ncalls, nfaults, plan>>

map_alias_returns ==
  /\ command.op = "map_alias"
  /\ command.pc = "called"
  /\ command' = [command EXCEPT !.pc = "returned",
                                 !.ret = map_alias(command.args[1], command.args[2])]
  /\ UNCHANGED <<db, app_state, lifetime, builder, service_groups, dlq, service_state_map,
                 service_canceltoken_map, service_tasks, event_chan, calls, cascades,
                 ncalls, nfaults, plan>>

NextAlias ==
  \/ is_subset_returns
  \/ map_alias_returns

SpecAlias == InitAlias /\ [][NextAlias]_vars

\* ------------------------------------------------------------------------
\* The store: the tables of db.rs 9-58 and the statements run on them.
\* Foreign keys are enforced (the default of the sqlx SQLite connection).
\* ------------------------------------------------------------------------
Failure(d) == [ok |-> FALSE, db |-> d]
Success(d) == [ok |-> TRUE, db |-> d]

ServiceIds(d) == {r.id : r \in d.service}

\* the rows left when the service id is deleted: ON DELETE CASCADE
DeleteCascade(d, id) ==
  [d EXCEPT !.service = {r \in @ : r.id # id},
            !.service_config = {r \in @ : r.service_id # id},
            !.service_arg = {r \in @ : r.service_id # id},
            !.service_dependency = {r \in @ : r.service_id # id},
            !.service_group_membership = {r \in @ : r.service_id # id}]

\* one SQL statement on the tables d: a statement that violates a
\* constraint of the schema fails and writes nothing
Exec(d, st) ==
  CASE st.kind = "insert_service" ->
         IF \E r \in d.service : r.name = st.name /\ r.version = st.version
         THEN Failure(d)
         ELSE Success([d EXCEPT
                !.service = @ \cup {[id |-> d.sqlite_sequence + 1,
                                     name |-> st.name, version |-> st.version]},
                !.sqlite_sequence = @ + 1])
    [] st.kind = "insert_service_config" ->
         IF \/ st.service_id \notin ServiceIds(d)
            \/ \E r \in d.service_config : r.service_id = st.service_id
         THEN Failure(d)
         ELSE Success([d EXCEPT
                !.service_config = @ \cup {[service_id |-> st.service_id,
                                            program |-> st.program,
                                            description |-> st.description,
                                            workspace |-> st.workspace]}])
    [] st.kind = "insert_service_arg" ->
         IF \/ st.service_id \notin ServiceIds(d)
            \/ st.arg_idx < 0
            \/ \E r \in d.service_arg :
                 r.service_id = st.service_id /\ r.arg_idx = st.arg_idx
         THEN Failure(d)
         ELSE Success([d EXCEPT
                !.service_arg = @ \cup {[service_id |-> st.service_id,
                                         arg_idx |-> st.arg_idx,
                                         value |-> st.value]}])
    [] st.kind = "insert_service_dependency" ->
         IF \/ st.service_id \notin ServiceIds(d)
            \/ st.dependency_id \notin ServiceIds(d)
            \/ st.service_id = st.dependency_id
            \/ \E r \in d.service_dependency :
                 r.service_id = st.service_id /\ r.dependency_id = st.dependency_id
         THEN Failure(d)
         ELSE Success([d EXCEPT
                !.service_dependency = @ \cup {[service_id |-> st.service_id,
                                                dependency_id |-> st.dependency_id]}])
    [] st.kind = "delete_service" ->
         IF \E r \in d.service_dependency : r.dependency_id = st.id
         THEN Failure(d)
         ELSE Success(DeleteCascade(d, st.id))
    [] st.kind = "insert_service_group_membership" ->
         IF \/ st.service_id \notin ServiceIds(d)
            \/ \E r \in d.service_group_membership : r.service_id = st.service_id
         THEN Failure(d)
         ELSE Success([d EXCEPT
                !.service_group_membership = @ \cup {[service_id |-> st.service_id,
                                                      group_id |-> st.group_id]}])
    [] st.kind = "delete_service_group_membership" ->
         Success([d EXCEPT !.service_group_membership = {}])
    [] st.kind = "insert_service_group_alias" ->
         IF \E r \in d.service_group_alias :
              r.group_id = st.group_id \/ r.alias = st.alias
         THEN Failure(d)
         ELSE Success([d EXCEPT
                !.service_group_alias = @ \cup {[group_id |-> st.group_id,
                                                 alias |-> st.alias]}])
    [] st.kind = "delete_service_group_alias" ->
         Success([d EXCEPT !.service_group_alias = {}])
    [] st.kind = "delete_service_group_alias_where" ->
         Success([d EXCEPT !.service_group_alias = {r \in @ : r.group_id # st.group_id}])

RECURSIVE ExecAll(_, _, _, _)
\* the statements of a transaction in order, on the transaction's view of
\* the tables; the statement numbered fail_at fails for a reason outside
\* the schema (an I/O error); the first failure ends the sequence (`?`)
ExecAll(d, stmts, n, fail_at) ==
  IF stmts = <<>> THEN Success(d)
  ELSE IF n = fail_at THEN Failure(d)
  ELSE LET r == Exec(d, Head(stmts))
       IN IF r.ok THEN ExecAll(r.db, Tail(stmts), n + 1, fail_at) ELSE r

\* a variant of Transaction whose statements are committed one by one
Transaction_autocommit(d, stmts, fail_at) ==
  LET r == ExecAll(d, stmts, 1, fail_at)
  IN IF r.ok /\ fail_at # Len(stmts) + 1 THEN Success(r.db) ELSE Failure(r.db)

\* begin() ... commit(): the statements take effect together at commit; an
\* error return drops the Transaction, which rolls back (fail_at =
\* Len(stmts) + 1 is a failing commit)
Transaction(d, stmts, fail_at) ==
  LET r == ExecAll(d, stmts, 1, fail_at)
  IN IF r.ok /\ fail_at # Len(stmts) + 1 THEN Success(r.db) ELSE Failure(d)

Ok(x) == <<"Ok", x>>
Err(e) == <<"Err", e>>

\* ------------------------------------------------------------------------
\* Queries (src-tauri service.rs 58-347)
\* ------------------------------------------------------------------------
query_service_id_by_name_and_version(d, name, version) ==
  LET rows == {r \in d.service : r.name = name /\ r.version = version}
  IN IF rows = {} THEN None ELSE Some((CHOOSE r \in rows : TRUE).id)

\* query_service_args (128-158): the rows of the service sorted by arg_idx
query_service_args(d, service_id) ==
  LET rows == {r \in d.service_arg : r.service_id = service_id}
      args_with_idx == SortSeq(CHOOSE s \in SetToSeqs(rows) : TRUE,
                               LAMBDA a, b : a.arg_idx < b.arg_idx)
  IN [i \in DOMAIN args_with_idx |-> args_with_idx[i].value]

\* query_service_dependency_ids (170-193); in the order of the rows
query_service_dependency_ids(d, service_id) ==
  LET rows == {r \in d.service_dependency : r.service_id = service_id}
      ordered == SortSeq(CHOOSE s \in SetToSeqs(rows) : TRUE,
                         LAMBDA a, b : a.dependency_id < b.dependency_id)
  IN [i \in DOMAIN ordered |-> ordered[i].dependency_id]

\* query_stored_service_config (238-278): None when the service, its config
\* row or its membership row is missing
query_stored_service_config(d, service_id) ==
  LET names == {r \in d.service : r.id = service_id}
      configs == {r \in d.service_config : r.service_id = service_id}
      groups == {r \in d.service_group_membership : r.service_id = service_id}
  IN IF names = {} \/ configs = {} \/ groups = {} THEN None
     ELSE LET n == CHOOSE r \in names : TRUE
              c == CHOOSE r \in configs : TRUE
              g == CHOOSE r \in groups : TRUE
          IN Some([service_id |-> service_id, name |-> n.name, version |-> n.version,
                   program |-> c.program, description |-> c.description,
                   workspace |-> c.workspace,
                   args |-> query_service_args(d, service_id),
                   dependency_ids |-> query_service_dependency_ids(d, service_id),
                   group_id |-> g.group_id])

\* ------------------------------------------------------------------------
\* insert_stored_service_config (365-418) and create_service_manager
\* (456-489)
\* ------------------------------------------------------------------------
\* the statements of insert_stored_service_config; the id is the one that
\* INSERT INTO service ... RETURNING id gives
InsertStatements(d, request, dependency_ids) ==
  LET service_id == d.sqlite_sequence + 1
  IN <<[kind |-> "insert_service", name |-> request.name, version |-> request.version],
       [kind |-> "insert_service_config", service_id |-> service_id,
        program |-> request.program, description |-> request.description,
        workspace |-> request.workspace]>>
     \o [i \in DOMAIN request.args |->
           [kind |-> "insert_service_arg", service_id |-> service_id,
            arg_idx |-> i - 1, value |-> request.args[i]]]
     \o [i \in DOMAIN dependency_ids |->
           [kind |-> "insert_service_dependency", service_id |-> service_id,
            dependency_id |-> dependency_ids[i]]]

insert_stored_service_config(d, request, dependency_ids, fail_at) ==
  LET t == Transaction(d, InsertStatements(d, request, dependency_ids), fail_at)
  IN [db |-> t.db,
      ret |-> IF t.ok THEN Ok(d.sqlite_sequence + 1) ELSE Err("insert failed")]

\* the configs that reload_service_manager loads, for the ids in that order
LoadedConfigs(d, service_ids) ==
  LET Loaded(id) == query_stored_service_config(d, id) # None
      ids == SelectSeq(service_ids, Loaded)
  IN [i \in DOMAIN ids |-> query_stored_service_config(d, ids[i])[2]]

\* create_service_manager: the ServiceConfig list; a dependency id that is
\* not the id of a loaded config is left out
StoredToServiceConfigs(configs) ==
  LET KeyOf(id) == LET c == configs[CHOOSE i \in DOMAIN configs : configs[i].service_id = id]
                   IN <<c.name, c.version>>
      Known(id) == \E i \in DOMAIN configs : configs[i].service_id = id
  IN [i \in DOMAIN configs |->
        LET known == SelectSeq(configs[i].dependency_ids, Known)
        IN [name |-> configs[i].name, version |-> configs[i].version,
            program |-> configs[i].program, args |-> configs[i].args,
            dependencies |-> [j \in DOMAIN known |-> KeyOf(known[j])],
            workspace |-> configs[i].workspace]]

\* ServiceManager::service_meta (core service.rs 557-572)
service_meta(key) ==
  IF key \in ServiceKeys
  THEN Some(CHOOSE meta \in service_groups[service_groupidx(key)].nodes : MetaKey(meta) = key)
  ELSE None

\* ------------------------------------------------------------------------
\* migrate_group_alias (566-629) and update_service_group_membership
\* (640-680)
\* ------------------------------------------------------------------------
NameRank == [n \in {"A", "B", "C", "D"} |->
               CASE n = "A" -> 1 [] n = "B" -> 2 [] n = "C" -> 3 [] n = "D" -> 4]

\* Vec<String>::sort
SortNames(names) == SortSeq(names, LAMBDA a, b : NameRank[a] < NameRank[b])

\* the sorted names of the services that service_group_membership puts in
\* the group
StoredGroupNames(d, group_id) ==
  LET service_ids == {r.service_id : r \in {m \in d.service_group_membership :
                                             m.group_id = group_id}}
      rows == {r \in d.service : r.id \in service_ids}
      ordered == CHOOSE s \in SetToSeqs(rows) : TRUE
  IN SortNames([i \in DOMAIN ordered |-> ordered[i].name])

\* prev, for the rows of service_group_alias in the order the SELECT gives
PrevAliases(d, group_aliases) ==
  [i \in DOMAIN group_aliases |->
     [alias |-> group_aliases[i].alias,
      service_names |-> StoredGroupNames(d, group_aliases[i].group_id)]]

\* ServiceManager::group_service_keys, for the group index counted from 0
group_service_keys(group_idx) == GroupKeys(service_groups[group_idx + 1])

\* curr, from the groups of the manager
CurrGroups ==
  [i \in DOMAIN service_groups |->
     LET ordered == CHOOSE s \in SetToSeqs(group_service_keys(i - 1)) : TRUE
     IN [group_id |-> i - 1,
         service_names |-> SortNames([j \in DOMAIN ordered |-> ordered[j][1]])]]

\* the statements of migrate_group_alias
AliasStatements(d, group_aliases) ==
  LET curr_aliases == map_alias(PrevAliases(d, group_aliases), CurrGroups)
  IN <<[kind |-> "delete_service_group_alias"]>>
     \o [i \in DOMAIN curr_aliases |->
           [kind |-> "insert_service_group_alias",
            group_id |-> curr_aliases[i].group_id, alias |-> curr_aliases[i].alias]]

RECURSIVE Flatten(_)
Flatten(ss) == IF ss = <<>> THEN <<>> ELSE Head(ss) \o Flatten(Tail(ss))

\* the statements of the membership rewrite: a service of the manager that
\* the store does not hold is skipped
MembershipStatements(d) ==
  <<[kind |-> "delete_service_group_membership"]>>
  \o Flatten([i \in DOMAIN service_groups |->
       LET Stored(key) == query_service_id_by_name_and_version(d, key[1], key[2]) # None
           ordered == SelectSeq(CHOOSE s \in SetToSeqs(group_service_keys(i - 1)) : TRUE,
                                Stored)
       IN [j \in DOMAIN ordered |->
             [kind |-> "insert_service_group_membership",
              service_id |-> query_service_id_by_name_and_version(
                               d, ordered[j][1], ordered[j][2])[2],
              group_id |-> i - 1]]])

\* ------------------------------------------------------------------------
\* The Tauri commands (src-tauri service.rs 760-1035), one action each
\* ------------------------------------------------------------------------
\* the command that ran before, without its own history
Last(c) == [op |-> c.op, args |-> c.args, ret |-> c.ret]

Ran(op, args, ret) ==
  command' = [op |-> op, pc |-> "returned", args |-> args, ret |-> ret,
              after |-> Last(command)]

ManagerKept ==
  UNCHANGED <<app_state, lifetime, builder, service_groups, dlq, service_state_map,
              service_canceltoken_map, service_tasks, event_chan, calls, cascades, plan>>

\* a command runs; fail_at # 0 is an I/O failure, counted as a fault
CommandRuns(fail_at) ==
  /\ ncalls < MaxCalls
  /\ ncalls' = ncalls + 1
  /\ fail_at # 0 => nfaults < MaxFaults
  /\ nfaults' = IF fail_at # 0 THEN nfaults + 1 ELSE nfaults

AddRequest(name, program, workspace, args, dependencies) ==
  [name |-> name, version |-> "v1", program |-> program, description |-> None,
   workspace |-> workspace, args |-> args, dependencies |-> dependencies]

\* requests with ordered args, a workspace, a dependency, a dependency
\* listed twice and a dependency on a service that may not be stored
AddRequests ==
  {AddRequest("A", "p", Some("w"), <<"y", "x">>, <<>>),
   AddRequest("B", "q", None, <<>>, <<kA>>),
   AddRequest("C", "p", None, <<"x">>, <<kA, kA>>),
   AddRequest("C", "p", None, <<>>, <<kB>>)}

\* add_service (782-822)
add_service(request, fail_at) ==
  LET Unresolved(i) ==
        query_service_id_by_name_and_version(
          db, request.dependencies[i][1], request.dependencies[i][2]) = None
      dependency_ids ==
        [i \in DOMAIN request.dependencies |->
           query_service_id_by_name_and_version(
             db, request.dependencies[i][1], request.dependencies[i][2])[2]]
  IN /\ CommandRuns(fail_at)
     /\ IF \E i \in DOMAIN request.dependencies : Unresolved(i)
        THEN /\ fail_at = 0
             /\ db' = db
             /\ Ran("add_service", request, Err("Dependency not found"))
        ELSE /\ fail_at \in 0..(Len(InsertStatements(db, request, dependency_ids)) + 1)
             /\ LET r == insert_stored_service_config(db, request, dependency_ids, fail_at)
                IN /\ db' = r.db
                   /\ Ran("add_service", request, r.ret)
     /\ ManagerKept

\* remove_service (836-856)
remove_service(name, version) ==
  /\ CommandRuns(0)
  /\ LET id == query_service_id_by_name_and_version(db, name, version)
     IN IF id = None
        THEN db' = db /\ Ran("remove_service", <<name, version>>, Ok(<<>>))
        ELSE LET r == Exec(db, [kind |-> "delete_service", id |-> id[2]])
             IN /\ db' = r.db
                /\ Ran("remove_service", <<name, version>>,
                       IF r.ok THEN Ok(<<>>) ELSE Err("delete failed"))
  /\ ManagerKept

\* reload_service_manager (868-882): the stored configs that are complete,
\* create_service_manager, from_configs, and the new manager in AppState
reload_service_manager ==
  /\ CommandRuns(0)
  /\ \E service_ids \in SetToSeqs(ServiceIds(db)) :
       \E b \in build_groups_from_configs(
                  StoredToServiceConfigs(LoadedConfigs(db, service_ids))) :
         /\ service_groups' = [g \in DOMAIN b.groups |-> ManagedGroup(b.groups[g])]
         /\ dlq' = b.dlq
         /\ service_state_map' =
              build_service_state_map([g \in DOMAIN b.groups |-> ManagedGroup(b.groups[g])])
         /\ service_canceltoken_map' =
              [k \in UNION {GroupKeys(ManagedGroup(b.groups[g])) : g \in DOMAIN b.groups}
                 |-> 0]
  /\ app_state' = [service_manager |-> "Some"]
  /\ Ran("reload_service_manager", <<>>, Ok(<<>>))
  /\ UNCHANGED <<db, lifetime, builder, service_tasks, event_chan, calls, cascades, plan>>

\* update_service_group_membership (640-680, 894-899)
update_service_group_membership(fail_at) ==
  /\ CommandRuns(fail_at)
  /\ IF app_state.service_manager = "None"
     THEN /\ fail_at = 0
          /\ db' = db
          /\ Ran("update_service_group_membership", <<>>,
                 Err("Service manager not initialized"))
     ELSE \E group_aliases \in SetToSeqs(db.service_group_alias) :
            LET stmts == AliasStatements(db, group_aliases) \o MembershipStatements(db)
            IN /\ fail_at \in 0..(Len(stmts) + 1)
               /\ LET t == Transaction(db, stmts, fail_at)
                  IN /\ db' = t.db
                     /\ Ran("update_service_group_membership", <<>>,
                            IF t.ok THEN Ok(<<>>) ELSE Err("update failed"))
  /\ ManagerKept

GroupIds == {0, 1, 2}
AliasNames == {"frontends", "backend"}

\* insert_group_alias (693-707, 913-922)
insert_group_alias(group_id, alias) ==
  /\ CommandRuns(0)
  /\ LET r == Exec(db, [kind |-> "insert_service_group_alias",
                        group_id |-> group_id, alias |-> alias])
     IN /\ db' = r.db
        /\ Ran("insert_group_alias", <<group_id, alias>>,
               IF r.ok THEN Ok(<<>>) ELSE Err("insert failed"))
  /\ ManagerKept

\* a variant of query_group_alias that looks the alias up in any row
query_group_alias_any_group(group_id) ==
  /\ CommandRuns(0)
  /\ LET rows == db.service_group_alias
     IN Ran("query_group_alias", <<group_id>>,
            IF rows = {} THEN None ELSE Some((CHOOSE r \in rows : TRUE).alias))
  /\ db' = db
  /\ ManagerKept

\* query_group_alias (719-736, 935-937)
query_group_alias(group_id) ==
  /\ CommandRuns(0)
  /\ LET rows == {r \in db.service_group_alias : r.group_id = group_id}
     IN Ran("query_group_alias", <<group_id>>,
            IF rows = {} THEN None ELSE Some((CHOOSE r \in rows : TRUE).alias))
  /\ db' = db
  /\ ManagerKept

\* remove_group_alias (748-757, 950-955)
remove_group_alias(group_id) ==
  /\ CommandRuns(0)
  /\ LET r == Exec(db, [kind |-> "delete_service_group_alias_where",
                        group_id |-> group_id])
     IN /\ db' = r.db
        /\ Ran("remove_group_alias", <<group_id>>, Ok(<<>>))
  /\ ManagerKept

\* a store as an earlier session left it: the configs stored in that order,
\* and the membership rows written for the groups built from them
SyncedStore(configs, groups) ==
  LET IdOf(key) == CHOOSE i \in DOMAIN configs : ConfigKey(configs[i]) = key
      keys == UNION {{MetaKey(groups[g].nodes[j]) : j \in DOMAIN groups[g].nodes} :
                     g \in DOMAIN groups}
  IN [service |-> {[id |-> i, name |-> configs[i].name, version |-> configs[i].version] :
                     i \in DOMAIN configs},
      service_config |-> {[service_id |-> i, program |-> configs[i].program,
                           description |-> None, workspace |-> configs[i].workspace] :
                            i \in DOMAIN configs},
      service_arg |-> UNION {{[service_id |-> i, arg_idx |-> j - 1,
                               value |-> configs[i].args[j]] :
                                j \in DOMAIN configs[i].args} : i \in DOMAIN configs},
      service_dependency |->
        UNION {{[service_id |-> i, dependency_id |-> IdOf(configs[i].dependencies[j])] :
                  j \in DOMAIN configs[i].dependencies} : i \in DOMAIN configs},
      service_group_membership |->
        {[service_id |-> IdOf(key),
          group_id |-> (CHOOSE g \in DOMAIN groups :
                          \E j \in DOMAIN groups[g].nodes :
                             MetaKey(groups[g].nodes[j]) = key) - 1] : key \in keys},
      service_group_alias |-> {},
      sqlite_sequence |-> Len(configs)]

\* the configs of the stores the commands start from: none, two
\* independent services, a service and its dependent
StoreSeeds ==
  {<<>>,
   <<ServiceConfig("A", <<>>), ServiceConfig("B", <<>>)>>,
   <<ServiceConfig("A", <<>>), ServiceConfig("B", <<kA>>)>>}

InitStore ==
  /\ NoManager
  /\ app_state = [service_manager |-> "None"]
  /\ command = NoCommand
  /\ \E configs \in StoreSeeds :
       \E b \in build_groups_from_configs(configs) :
         db = SyncedStore(configs, b.groups)

NextStore ==
  \/ \E request \in AddRequests, fail_at \in 0..8 : add_service(request, fail_at)
  \/ \E name \in {"A", "B"} : remove_service(name, "v1")
  \/ reload_service_manager
  \/ \E fail_at \in 0..8 : update_service_group_membership(fail_at)
  \/ \E group_id \in GroupIds, alias \in AliasNames : insert_group_alias(group_id, alias)
  \/ \E group_id \in GroupIds : query_group_alias(group_id)
  \/ \E group_id \in GroupIds : remove_group_alias(group_id)

SpecStore == InitStore /\ [][NextStore]_vars

\* ------------------------------------------------------------------------
\* Vocabulary of the properties
\* ------------------------------------------------------------------------
MidStates == {Starting, Stopping}

\* the states on which stop_service is a no-op and launch_service launches
IsIdleState(s) == s \in {Pending, Stopped, Skipped} \/ IsFailed(s)

\* the three maps a call may write
MapsUnchanged ==
  UNCHANGED <<service_state_map, service_canceltoken_map, service_tasks,
              event_chan, cascades>>

\* launch_service returned res to caller c in this step
LaunchReturned(c, res) ==
  IF res = "Ok" /\ calls'[c].op = "launch_group"
  THEN calls'[c].pc = "wait"
  ELSE calls'[c].pc = "done" /\ calls'[c].res = res

\* caller c is the caller that takes this step, if a caller does
Acts(c) == calls'[c] # calls[c] \/ ncalls' # ncalls

\* caller c invokes stop_service(key) in this step
StopCallOn(c, key) ==
  /\ ncalls' # ncalls /\ calls'[c].op = "stop_service"
  /\ stop_service_call(c, key)

\* caller c runs the state gate of launch_service(key) in this step
LaunchGateOn(c, key) ==
  \/ calls[c].pc = "gate" /\ calls[c].key = key /\ launch_service(c)
  \/ /\ ncalls' # ncalls /\ calls'[c].op = "launch_service"
     /\ dep_keys(key) = <<>> /\ launch_service_call(c, key)

\* caller c reads, in deps_running for launch_service(key), the state of dep
DepsReadOn(c, key, dep) ==
  \/ /\ calls[c].pc = "deps" /\ calls[c].key = key /\ Head(calls[c].deps) = dep
     /\ deps_running(c)
  \/ /\ ncalls' # ncalls /\ calls'[c].op = "launch_service"
     /\ dep_keys(key) # <<>> /\ Head(dep_keys(key)) = dep
     /\ launch_service_call(c, key)

\* the dependency that the next read of deps_running for key reads
NextDep(c, key) ==
  IF calls[c].pc = "deps" THEN Head(calls[c].deps)
  ELSE IF dep_keys(key) # <<>> THEN Head(dep_keys(key)) ELSE NoKey

\* no process is about to report and nothing is in progress
Quiescent ==
  /\ \A c \in Callers : CallFree(c)
  /\ event_chan = <<>>
  /\ cascades = <<>>
  /\ \A r \in DOMAIN service_tasks :
       \/ service_tasks[r].pc = "done"
       \/ service_tasks[r].pc = "wait" /\ ~service_tasks[r].cancelled

\* the services that depend on key, directly or through other services
RevReach(key) ==
  Closure(Range(service_groups[service_groupidx(key)].edges), {key}) \ {key}

\* the services that key depends on, directly or through other services
DepReach(key) ==
  Closure({<<e[2], e[1]>> : e \in Range(service_groups[service_groupidx(key)].edges)},
          {key}) \ {key}

IsStoppedOrFailed(s) == s = Stopped \/ IsFailed(s)

\* the last call of the single caller was a stop_service that found its
\* service Running and returned Ok(()), and the system is quiescent
StopSucceeded(key) ==
  /\ calls[1].op = "stop_service" /\ calls[1].key = key
  /\ calls[1].pc = "done" /\ calls[1].res = "Ok"
  /\ key \in calls[1].hit
  /\ Quiescent

\* ------------------------------------------------------------------------
\* C1 (as amended): when stop_service(key) on a Running service has returned
\* Ok(()) and the system is quiescent, key and every service that the
\* cascade reached through reverse-dependency edges and found Running are
\* Stopped or Failed.  Dependents that the cascade found in Pending,
\* Stopped, Failed or Skipped are left in that state, so a dependent that
\* was never launched is still Pending.
\* ------------------------------------------------------------------------
C1_StopCascade ==
  \A key \in ServiceKeys :
    StopSucceeded(key) =>
      /\ calls[1].hit \subseteq {key} \cup RevReach(key)
      /\ \A s \in calls[1].hit : IsStoppedOrFailed(service_state_map[s])

\* stop_service on the root of a chain or triangle whose three services
\* were Running has returned Ok(()) and all three are Stopped
C1_Witness ==
  \E key \in ServiceKeys :
    /\ StopSucceeded(key)
    /\ calls[1].hit = ServiceKeys
    /\ RevReach(key) # {}
    /\ \A s \in ServiceKeys : service_state_map[s] = Stopped

\* C1 as stated: after a successful stop_service(key) on a Running service,
\* at quiescence every service reachable from key along reverse-dependency
\* edges is Stopped or Failed, whatever the states of the dependents were.
C1_Original ==
  \A key \in ServiceKeys :
    StopSucceeded(key) =>
      \A s \in RevReach(key) : IsStoppedOrFailed(service_state_map[s])

\* ------------------------------------------------------------------------
\* C2: from a state where every member of a group is Running, stop_service
\* on each key of group_root_service_keys leaves, at quiescence, every
\* member of the group Stopped.
\* ------------------------------------------------------------------------
C2_StopRoots ==
  (plan = <<>> /\ Quiescent) =>
    \A k \in GroupKeys(service_groups[1]) : service_state_map[k] = Stopped

\* ------------------------------------------------------------------------
\* C3: launch_group on a group whose members are all Pending, when no spawn
\* fails, no child exits and no wait times out, returns Ok(()) with every
\* member Running, and no service is Starting or Running before all its
\* direct dependencies are Running.
\* ------------------------------------------------------------------------
C3_LaunchGroup ==
  (nfaults = 0 /\ ~calls[1].tmo) =>
    /\ (calls[1].op = "launch_group" /\ calls[1].pc = "done") =>
         /\ calls[1].res = "Ok"
         /\ \A k \in GroupKeys(service_groups[1]) : service_state_map[k] = Running
    /\ \A k \in ServiceKeys :
         service_state_map[k] \in {Starting, Running} =>
           \A d \in Range(dep_keys(k)) : service_state_map[d] = Running

\* launch_group has returned Ok(()) on a group where one service has two
\* dependencies, and every member is Running
C3_Witness ==
  /\ nfaults = 0 /\ ~calls[1].tmo
  /\ calls[1].op = "launch_group" /\ calls[1].pc = "done" /\ calls[1].res = "Ok"
  /\ \E k \in ServiceKeys : Len(dep_keys(k)) = 2
  /\ \A k \in GroupKeys(service_groups[1]) : service_state_map[k] = Running

\* ------------------------------------------------------------------------
\* C4: when the child of a Running service exits on its own while its
\* dependents are Running, the system quiesces with that service Failed,
\* every service that transitively depends on it Stopped or Failed, and the
\* services it depends on unchanged (Running).
\* ------------------------------------------------------------------------
C4_CrashCascade ==
  (nfaults = 1 /\ Quiescent) =>
    /\ \E k \in ServiceKeys : IsFailed(service_state_map[k])
    /\ \A k \in ServiceKeys :
         IsFailed(service_state_map[k]) =>
           /\ \A s \in RevReach(k) : IsStoppedOrFailed(service_state_map[s])
           /\ \A d \in DepReach(k) : service_state_map[d] = Running

\* ------------------------------------------------------------------------
\* C5: every change of a service's state follows the lifecycle machine:
\* Pending | Stopped | Failed | Skipped -> Starting, Starting -> Running,
\* Running -> Stopping, Stopping -> Stopped, any state -> Failed; no other
\* transition occurs after any sequence of public operations and events.
\* ------------------------------------------------------------------------
Lifecycle(s, t) ==
  \/ IsIdleState(s) /\ t = Starting
  \/ s = Starting /\ t = Running
  \/ s = Running /\ t = Stopping
  \/ s = Stopping /\ t = Stopped
  \/ IsFailed(t)

C5_Lifecycle ==
  [][\A k \in ServiceKeys :
       service_state_map'[k] # service_state_map[k] =>
         Lifecycle(service_state_map[k], service_state_map'[k])]_vars

\* ------------------------------------------------------------------------
\* C6 (as amended): stop_service on a Starting or Stopping service always
\* returns the mid-state error and changes nothing; launch_service on a
\* Starting or Stopping service returns the mid-state error and changes
\* nothing when deps_running passed, and returns Ok(()) without touching
\* anything when deps_running found a dependency that is not Running.
\* ------------------------------------------------------------------------
C6_MidStateRejected ==
  [][\A c \in Callers :
       LET key == calls'[c].key
       IN (Acts(c) /\ key # NoKey /\ service_state_map[key] \in MidStates) =>
          /\ StopCallOn(c, key)
               => (calls'[c].pc = "done" /\ calls'[c].res = "MidState" /\ MapsUnchanged)
          /\ LaunchGateOn(c, key)
               => (calls'[c].pc = "done" /\ calls'[c].res = "MidState" /\ MapsUnchanged)
          /\ (/\ NextDep(c, key) # NoKey
              /\ service_state_map[NextDep(c, key)] # Running
              /\ DepsReadOn(c, key, NextDep(c, key)))
               => (LaunchReturned(c, "Ok") /\ MapsUnchanged)]_vars

\* a launch_service was rejected on a Starting service
C6_Witness ==
  \E c \in Callers :
    /\ calls[c].op = "launch_service" /\ calls[c].pc = "done"
    /\ calls[c].res = "MidState"
    /\ service_state_map[calls[c].key] = Starting
    /\ \A i \in DOMAIN dep_keys(calls[c].key) :
         service_state_map[dep_keys(calls[c].key)[i]] = Running

\* C6 as stated: every launch_service or stop_service on a Starting or
\* Stopping service that returns, returns the mid-state error
C6_Original ==
  [][\A c \in Callers :
       LET key == calls'[c].key
       IN (/\ Acts(c) /\ key # NoKey /\ calls'[c].pc = "done"
           /\ service_state_map[key] \in MidStates
           /\ \/ StopCallOn(c, key)
              \/ ncalls' # ncalls /\ calls'[c].op = "launch_service"
                 /\ launch_service_call(c, key)
              \/ calls[c].op = "launch_service" /\ calls[c].key = key
                 /\ (deps_running(c) \/ launch_service(c)))
          => (calls'[c].res = "MidState" /\ MapsUnchanged)]_vars

\* ------------------------------------------------------------------------
\* C7: when deps_running has found every direct dependency Running,
\* launch_service on a Running service returns Ok and changes nothing, and on
\* a Pending, Stopped, Failed or Skipped service it sets the state to
\* Starting, stores a fresh token for the key, spawns exactly one runner and
\* returns Ok; a dependency read as Running lets the call go on.
\* ------------------------------------------------------------------------
C7_LaunchGate ==
  [][\A c \in Callers :
       LET key == calls'[c].key
       IN (Acts(c) /\ key # NoKey) =>
          /\ (service_state_map[key] = Running /\ LaunchGateOn(c, key))
               => (LaunchReturned(c, "Ok") /\ MapsUnchanged)
          /\ (IsIdleState(service_state_map[key]) /\ LaunchGateOn(c, key))
               => /\ LaunchReturned(c, "Ok")
                  /\ service_state_map' = [service_state_map EXCEPT ![key] = Starting]
                  /\ Len(service_tasks') = Len(service_tasks) + 1
                  /\ SubSeq(service_tasks', 1, Len(service_tasks)) = service_tasks
                  /\ service_tasks'[Len(service_tasks')] = NewTask(key)
                  /\ service_canceltoken_map' =
                       [service_canceltoken_map EXCEPT ![key] = Len(service_tasks')]
                  /\ \A k \in ServiceKeys :
                       service_canceltoken_map[k] # Len(service_tasks')
                  /\ UNCHANGED <<event_chan, cascades>>
          /\ (/\ NextDep(c, key) # NoKey
              /\ service_state_map[NextDep(c, key)] = Running
              /\ DepsReadOn(c, key, NextDep(c, key)))
               => (calls'[c].pc \in {"deps", "gate"} /\ MapsUnchanged)]_vars

\* a service with a Running dependency was launched again after an earlier
\* runner of the same service
C7_Witness ==
  \E c \in Callers :
    /\ calls[c].op = "launch_service" /\ calls[c].pc = "done" /\ calls[c].res = "Ok"
    /\ dep_keys(calls[c].key) # <<>>
    /\ service_state_map[calls[c].key] = Starting
    /\ service_canceltoken_map[calls[c].key] > 1
    /\ \E r \in DOMAIN service_tasks :
         /\ r < service_canceltoken_map[calls[c].key]
         /\ service_tasks[r].key = calls[c].key

\* ------------------------------------------------------------------------
\* C8: when deps_running reads a direct dependency that is not Running,
\* launch_service returns Ok and the state map, the cancel-token map and the
\* runners are unchanged; launch_service on a service without dependencies
\* goes straight to the state gate.
\* ------------------------------------------------------------------------
C8_DepsNotRunning ==
  [][\A c \in Callers :
       LET key == calls'[c].key
       IN (Acts(c) /\ key # NoKey) =>
          /\ (/\ NextDep(c, key) # NoKey
              /\ service_state_map[NextDep(c, key)] # Running
              /\ DepsReadOn(c, key, NextDep(c, key)))
               => (LaunchReturned(c, "Ok") /\ MapsUnchanged)
          /\ (/\ dep_keys(key) = <<>> /\ IsIdleState(service_state_map[key])
              /\ ncalls' # ncalls /\ calls'[c].op = "launch_service"
              /\ launch_service_call(c, key))
               => service_state_map'[key] = Starting]_vars

\* a launch_service returned Ok on a Pending service whose dependency is
\* not Running, and the service is still Pending
C8_Witness ==
  \E c \in Callers :
    /\ calls[c].op = "launch_service" /\ calls[c].pc = "done" /\ calls[c].res = "Ok"
    /\ service_state_map[calls[c].key] = Pending
    /\ \E i \in DOMAIN dep_keys(calls[c].key) :
         service_state_map[dep_keys(calls[c].key)[i]] # Running
    /\ \E k \in ServiceKeys : service_state_map[k] = Running

\* ------------------------------------------------------------------------
\* C9: stop_service on a Stopped, Failed, Pending or Skipped service returns
\* Ok and changes no state and no token, of the service or of a dependent;
\* the same holds of the nested stop_service of a cascade.
\* ------------------------------------------------------------------------
C9_StopNoOp ==
  [][\A c \in Callers :
       LET key == calls'[c].key
       IN /\ (/\ Acts(c) /\ key # NoKey /\ IsIdleState(service_state_map[key])
              /\ StopCallOn(c, key))
             => (calls'[c].pc = "done" /\ calls'[c].res = "Ok" /\ calls'[c].hit = {}
                 /\ MapsUnchanged)
          /\ (/\ calls[c].pc = "stop"
              /\ calls[c].stack[Len(calls[c].stack)].rest # <<>>
              /\ IsIdleState(service_state_map[
                   Head(calls[c].stack[Len(calls[c].stack)].rest)])
              /\ stop_service(c))
             => (MapsUnchanged /\ calls'[c].res \in {"none", "Ok"})]_vars

\* stop_service returned Ok on a Failed service whose dependent is Running
C9_Witness ==
  \E c \in Callers :
    /\ calls[c].op = "stop_service" /\ calls[c].pc = "done" /\ calls[c].res = "Ok"
    /\ calls[c].hit = {}
    /\ IsFailed(service_state_map[calls[c].key])
    /\ \E i \in DOMAIN rev_dep_keys(calls[c].key) :
         service_state_map[rev_dep_keys(calls[c].key)[i]] = Running

\* ------------------------------------------------------------------------
\* C10: when the builder has returned, every input config, counted by
\* position, is in exactly one place: a node of one built group or an entry
\* of the DLQ.  For every (name, version, program) the number of input
\* positions that hold it equals the number of group nodes plus the number
\* of DLQ entries that hold it, no key is a node twice, and nothing else is
\* in a group or in the DLQ.
\* ------------------------------------------------------------------------
GroupNodePlaces(ret) ==
  UNION {{<<g, j>> : j \in DOMAIN ret[g].nodes} : g \in DOMAIN ret}

C10_Partition ==
  builder.stage = "built" =>
    LET cfgs == builder.service_configs
        ret == builder.ret
        places == GroupNodePlaces(ret)
        metas == {ServiceMeta(cfgs[i]) : i \in DOMAIN cfgs}
    IN /\ \A m \in metas :
            Cardinality({i \in DOMAIN cfgs : ServiceMeta(cfgs[i]) = m})
              = Cardinality({p \in places : ret[p[1]].nodes[p[2]] = m})
                + Cardinality({i \in DOMAIN dlq : dlq[i].meta = m})
       /\ \A p \in places : ret[p[1]].nodes[p[2]] \in metas
       /\ \A i \in DOMAIN dlq : dlq[i].meta \in metas
       /\ \A p, q \in places :
            MetaKey(ret[p[1]].nodes[p[2]]) = MetaKey(ret[q[1]].nodes[q[2]]) => p = q

\* the builder has returned a group and a DLQ entry for three configs of
\* which two have the same key
C10_Witness ==
  /\ builder.stage = "built"
  /\ Len(builder.service_configs) = 3
  /\ \E i, j \in DOMAIN builder.service_configs :
       /\ i # j
       /\ ConfigKey(builder.service_configs[i]) = ConfigKey(builder.service_configs[j])
       /\ builder.service_configs[i].program # builder.service_configs[j].program
  /\ builder.ret # <<>>
  /\ dlq # <<>>

\* ------------------------------------------------------------------------
\* Vocabulary of the builder properties: what the input list says, stated
\* on the configs alone
\* ------------------------------------------------------------------------
\* the positions that hold the first config of their key
FirstOccurrences(cfgs) ==
  {i \in DOMAIN cfgs :
     \A j \in 1..(i - 1) : ConfigKey(cfgs[j]) # ConfigKey(cfgs[i])}

InputKeys(cfgs) == {ConfigKey(cfgs[i]) : i \in DOMAIN cfgs}

\* the accepted config of a key
AcceptedConfig(cfgs, key) ==
  cfgs[CHOOSE i \in FirstOccurrences(cfgs) : ConfigKey(cfgs[i]) = key]

\* the pairs <<dep, key>> declared by the accepted configs
DeclaredDeps(cfgs) ==
  UNION {{<<cfgs[i].dependencies[n], ConfigKey(cfgs[i])>> :
            n \in DOMAIN cfgs[i].dependencies} : i \in FirstOccurrences(cfgs)}

\* the keys that depend, directly or transitively, on a key that is not in
\* the input
Orphans(cfgs) ==
  LET missing == {e[1] : e \in DeclaredDeps(cfgs)} \ InputKeys(cfgs)
  IN Closure(DeclaredDeps(cfgs), missing) \ missing

Survivors(cfgs) == InputKeys(cfgs) \ Orphans(cfgs)

SurvivingDeps(cfgs) ==
  {e \in DeclaredDeps(cfgs) : e[1] \in Survivors(cfgs) /\ e[2] \in Survivors(cfgs)}

\* the classes of "linked by a path of dependency edges in either direction"
Components(cfgs) ==
  LET E == SurvivingDeps(cfgs)
  IN {Closure(E \cup {<<e[2], e[1]>> : e \in E}, {k}) : k \in Survivors(cfgs)}

\* some member of the set is on a directed cycle of E (a self-loop included)
HasCycle(E, members) ==
  \E k \in members : k \in Closure(E, {e[2] : e \in {x \in E : x[1] = k}})

\* the keys and the dependency pairs of a built group
BuiltKeys(group) == {MetaKey(group.nodes[j]) : j \in DOMAIN group.nodes}
BuiltEdges(group) == Range(group.edges)

\* the DLQ entries of a key
DlqOf(key) == {i \in DOMAIN dlq : dlq[i].key = key}

\* ------------------------------------------------------------------------
\* C11: every group the builder returns and every group the manager holds
\* has an acyclic dependency graph, without self-loop, whose edges join
\* members of the group, so a topological order of the group exists.
\* ------------------------------------------------------------------------
C11_Acyclic ==
  /\ builder.stage \in {"built", "done"} =>
       \A g \in DOMAIN builder.ret :
         /\ ~HasCycle(BuiltEdges(builder.ret[g]), BuiltKeys(builder.ret[g]))
         /\ \A e \in BuiltEdges(builder.ret[g]) :
              e[1] # e[2] /\ {e[1], e[2]} \subseteq BuiltKeys(builder.ret[g])
  /\ \A g \in DOMAIN service_groups : toposort(service_groups[g]) # {}

\* the manager holds a group with an edge, built from an input whose other
\* component was rejected as cyclic
C11_Witness ==
  /\ builder.stage = "done"
  /\ \E g \in DOMAIN service_groups : service_groups[g].edges # <<>>
  /\ \E i \in DOMAIN dlq : dlq[i].reason = CyclicReason

\* ------------------------------------------------------------------------
\* C12: when a weakly-connected component of the surviving services has a
\* directed cycle, no group holds a member of the component and every
\* member, on the cycle or not, has one DLQ entry with the reason "Service
\* group dependency is cyclic"; the input P -> Q, Q -> P gives no group and
\* two such entries.
\* ------------------------------------------------------------------------
C12_CyclicComponent ==
  builder.stage = "built" =>
    LET cfgs == builder.service_configs
    IN /\ \A comp \in Components(cfgs) :
            HasCycle(SurvivingDeps(cfgs), comp) =>
              /\ \A g \in DOMAIN builder.ret : BuiltKeys(builder.ret[g]) \cap comp = {}
              /\ \A k \in comp :
                   /\ Cardinality({i \in DlqOf(k) : dlq[i].reason = CyclicReason}) = 1
                   /\ \A i \in DlqOf(k) :
                        dlq[i].reason = CyclicReason =>
                          dlq[i].meta = ServiceMeta(AcceptedConfig(cfgs, k))
       /\ (Len(cfgs) = 2 /\ Range(cfgs) = {ProgramConfig("A", "p", <<kB>>),
                                           ProgramConfig("B", "p", <<kA>>)}) =>
            /\ builder.ret = <<>>
            /\ Len(dlq) = 2
            /\ \A i \in DOMAIN dlq : dlq[i].reason = CyclicReason

\* the builder has returned for A -> B -> A with C depending on B: C is not
\* on the cycle and has a DLQ entry with the cyclic reason
C12_Witness ==
  /\ builder.stage = "built"
  /\ Range(builder.service_configs) =
       {ProgramConfig("A", "p", <<kB>>), ProgramConfig("B", "p", <<kA>>),
        ProgramConfig("C", "p", <<kB>>)}
  /\ \E i \in DOMAIN dlq : dlq[i].key = kC /\ dlq[i].reason = CyclicReason

\* ------------------------------------------------------------------------
\* C13: an accepted config that lists its own key among its dependencies is
\* in no group; the dangling-dependency stage never reports its own key as
\* missing and does not remove it unless it depends on a key that is
\* missing; when that stage leaves it, the cycle stage rejects it: it has
\* one DLQ entry with the cyclic reason and none with a not-found reason.
\* ------------------------------------------------------------------------
SelfDependent(cfgs) ==
  {ConfigKey(cfgs[i]) : i \in {j \in FirstOccurrences(cfgs) :
                                 ConfigKey(cfgs[j]) \in Range(cfgs[j].dependencies)}}

NotFoundReasons(deps) == {DepNotFoundReason(deps[n]) : n \in DOMAIN deps}

C14_PruneFixpoint ==
  LET cfgs == builder.service_configs
  IN /\ builder.passes <= Cardinality(InputKeys(cfgs)) + 1
     /\ builder.stage = "validated" =>
          DOMAIN builder.service_infos = Survivors(cfgs)
     /\ builder.stage = "built" =>
          /\ \A k \in Orphans(cfgs) :
               LET deps == AcceptedConfig(cfgs, k).dependencies
                   gone == SelectSeq(deps, LAMBDA d : d \notin Survivors(cfgs))
               IN /\ \A g \in DOMAIN builder.ret : k \notin BuiltKeys(builder.ret[g])
                  /\ Cardinality({i \in DlqOf(k) :
                                    dlq[i].reason \in NotFoundReasons(gone)}) = 1
                  /\ \A i \in DlqOf(k) :
                       dlq[i].reason \in NotFoundReasons(gone) \cup {NotUniqueReason(k)}
          /\ \A k \in Survivors(cfgs) : \A i \in DlqOf(k) :
               dlq[i].reason \in {CyclicReason, NotUniqueReason(k)}
          /\ \A g \in DOMAIN builder.ret : \A k \in BuiltKeys(builder.ret[g]) :
               Range(AcceptedConfig(cfgs, k).dependencies) \subseteq BuiltKeys(builder.ret[g])

\* the builder has returned for A -> B, B -> C without C: B was removed in
\* the first pass and A in the second, for its dependency B
C14_Witness ==
  /\ builder.stage = "built"
  /\ builder.passes = 3
  /\ builder.ret = <<>>
  /\ \E i, j \in DOMAIN dlq :
       /\ i < j
       /\ dlq[i].key = kB /\ dlq[i].reason = DepNotFoundReason(kC)
       /\ dlq[j].key = kA /\ dlq[j].reason = DepNotFoundReason(kB)

\* ------------------------------------------------------------------------
\* C15: for each key the first config in input order is the one accepted
\* into the build, and every later config of the key has a DLQ entry with
\* the reason "Service <name>:v<version> is not unique" and its own meta;
\* these entries are in the DLQ in the order of the input, before every
\* other entry, whatever later stages do with the accepted config.
\* ------------------------------------------------------------------------
Duplicates(cfgs) == DOMAIN cfgs \ FirstOccurrences(cfgs)

C15_Duplicates ==
  LET cfgs == builder.service_configs
      n == Cardinality(Duplicates(cfgs))
  IN /\ (builder.stage = "unique" /\ builder.passes = 0) =>
          /\ DOMAIN builder.service_infos = InputKeys(cfgs)
          /\ \A k \in InputKeys(cfgs) :
               /\ builder.service_infos[k].meta = ServiceMeta(AcceptedConfig(cfgs, k))
               /\ builder.service_infos[k].deps = AcceptedConfig(cfgs, k).dependencies
     /\ builder.stage \in {"unique", "validated", "split", "built"} =>
          /\ Len(dlq) >= n
          /\ \E f \in [1..n -> Duplicates(cfgs)] :
               /\ \A a, b \in 1..n : a < b => f[a] < f[b]
               /\ \A a \in 1..n :
                    dlq[a] = DeadLetterQueueItem(ConfigKey(cfgs[f[a]]),
                               NotUniqueReason(ConfigKey(cfgs[f[a]])),
                               ServiceMeta(cfgs[f[a]]))
          /\ \A i \in DOMAIN dlq :
               i > n => dlq[i].reason # NotUniqueReason(dlq[i].key)
     /\ builder.stage = "built" =>
          \A g \in DOMAIN builder.ret : \A j \in DOMAIN builder.ret[g].nodes :
            builder.ret[g].nodes[j] =
              ServiceMeta(AcceptedConfig(cfgs, MetaKey(builder.ret[g].nodes[j])))

\* the builder has returned for A (program p, depending on a missing B)
\* followed by A (program q): the second is in the DLQ as not unique, the
\* first after it as pruned
C15_Witness ==
  /\ builder.stage = "built"
  /\ builder.service_configs =
       <<ProgramConfig("A", "p", <<kB>>), ProgramConfig("A", "q", <<>>)>>
  /\ Len(dlq) = 2
  /\ dlq[1].reason = NotUniqueReason(kA) /\ dlq[1].meta.program = "q"
  /\ dlq[2].reason = DepNotFoundReason(kB) /\ dlq[2].meta.program = "p"

\* ------------------------------------------------------------------------
\* C16: the built groups are exactly the acyclic weakly-connected
\* components of the surviving dependency relation: each group's members
\* are one class of "linked by a path of dependency edges in either
\* direction", each acyclic class is the member set of exactly one group,
\* the groups are pairwise disjoint and non-empty, the edges of a group are
\* the surviving dependency pairs of its members, and two services without
\* any dependency form two groups of one service.
\* ------------------------------------------------------------------------
C16_Components ==
  builder.stage = "built" =>
    LET cfgs == builder.service_configs
        ret == builder.ret
        acyclic == {comp \in Components(cfgs) : ~HasCycle(SurvivingDeps(cfgs), comp)}
    IN /\ {BuiltKeys(ret[g]) : g \in DOMAIN ret} = acyclic
       /\ Len(ret) = Cardinality(acyclic)
       /\ \A g \in DOMAIN ret :
            /\ ret[g].nodes # <<>>
            /\ Len(ret[g].nodes) = Cardinality(BuiltKeys(ret[g]))
            /\ BuiltEdges(ret[g]) =
                 {e \in SurvivingDeps(cfgs) : e[2] \in BuiltKeys(ret[g])}
       /\ \A g, h \in DOMAIN ret :
            g # h => BuiltKeys(ret[g]) \cap BuiltKeys(ret[h]) = {}
       /\ (Len(cfgs) = 2 /\ Range(cfgs) = {ProgramConfig("A", "p", <<>>),
                                           ProgramConfig("B", "p", <<>>)}) =>
            /\ Len(ret) = 2
            /\ Len(ret[1].nodes) = 1 /\ Len(ret[2].nodes) = 1

\* the builder has returned two groups, A alone and C -> B, with nothing in
\* the DLQ
C16_Witness ==
  /\ builder.stage = "built"
  /\ dlq = <<>>
  /\ {BuiltKeys(builder.ret[g]) : g \in DOMAIN builder.ret} = {{kA}, {kB, kC}}

\* ------------------------------------------------------------------------
\* C17: two builds from the same input list give the same groups up to
\* order (the same member sets with the same metas and the same edges) and
\* the same DLQ content (the same multiset of (key, reason) entries),
\* whatever the iteration order of the hash maps in either build.
\* ------------------------------------------------------------------------
GroupShapes(groups) ==
  {[nodes |-> Range(groups[g].nodes), edges |-> Range(groups[g].edges),
    size |-> <<Len(groups[g].nodes), Len(groups[g].edges)>>] : g \in DOMAIN groups}

DlqContent(q) ==
  [x \in {<<q[i].key, q[i].reason>> : i \in DOMAIN q} |->
     Cardinality({i \in DOMAIN q : <<q[i].key, q[i].reason>> = x})]

C17_Deterministic ==
  builder.stage = "built" =>
    \A other \in build_groups_from_configs(builder.service_configs) :
      /\ GroupShapes(other.groups) = GroupShapes(builder.ret)
      /\ Len(other.groups) = Len(builder.ret)
      /\ DlqContent(other.dlq) = DlqContent(dlq)

\* the builder has returned two groups and a DLQ entry, and another build
\* of the same input gives the groups in the other order
C17_Witness ==
  /\ builder.stage = "built"
  /\ Len(builder.ret) = 2
  /\ dlq # <<>>
  /\ \E other \in build_groups_from_configs(builder.service_configs) :
       other.groups # builder.ret

\* ------------------------------------------------------------------------
\* C18: right after from_configs, service_state returns Pending for every
\* member of a built group and None for every other key, the keys that are
\* only in the DLQ included; no runner and no cancel token exists yet.
\* ------------------------------------------------------------------------
C18_InitialPending ==
  builder.stage = "done" =>
    LET members == UNION {BuiltKeys(builder.ret[g]) : g \in DOMAIN builder.ret}
        others == ({kA, kB, kC, NoKey} \cup InputKeys(builder.service_configs)
                     \cup {dlq[i].key : i \in DOMAIN dlq}) \ members
    IN /\ \A k \in members : service_state(k) = Pending
       /\ \A k \in others : service_state(k) = None
       /\ ServiceKeys = members
       /\ \A k \in members : service_canceltoken_map[k] = 0
       /\ service_tasks = <<>>

\* a manager built from three configs holds one group and has a key that is
\* only in the DLQ
C18_Witness ==
  /\ builder.stage = "done"
  /\ Len(builder.service_configs) = 3
  /\ \E k \in DOMAIN service_state_map : service_state(k) = Pending
  /\ \E i \in DOMAIN dlq : service_state(dlq[i].key) = None

\* ------------------------------------------------------------------------
\* C19: launch_group fails only when a launch_service fails, which is the
\* mid-state error of its state gate.  The end of a wait, by a timeout or by
\* a poll that sees Running or a state that is neither Starting nor Running
\* (Failed, Pending, ...), writes nothing and goes on with the next service
\* in order, or returns Ok(()) after the last one; a service whose
\* dependency is not Running is left as it is and the sequence goes on.
\* ------------------------------------------------------------------------
\* the call record is at the launch of the first service of todo, or has
\* returned Ok(()) when todo is empty
GoesOn(call, todo) ==
  IF todo = <<>>
  THEN call.pc = "done" /\ call.res = "Ok"
  ELSE /\ call.key = Head(todo) /\ call.todo = Tail(todo)
       /\ call.pc = (IF dep_keys(Head(todo)) = <<>> THEN "gate" ELSE "deps")

\* caller c takes this step: its call record changes, or it makes a call
\* that leaves the record as the call before left it
Steps(c) == calls'[c] # calls[c] \/ (ncalls' # ncalls /\ CanCall(c))

SameGroup(k, key) ==
  key \in ServiceKeys /\ service_groupidx(k) = service_groupidx(key)

C20_GroupIsolation ==
  [][\A k \in ServiceKeys :
       (\/ service_state_map'[k] # service_state_map[k]
        \/ service_canceltoken_map'[k] # service_canceltoken_map[k]) =>
         \/ \E c \in Callers : Steps(c) /\ SameGroup(k, calls'[c].key)
         \/ /\ event_chan # <<>> /\ event_chan' = Tail(event_chan)
            /\ SameGroup(k, Head(event_chan).service_key)
         \/ \E i \in DOMAIN cascades :
              /\ i \notin DOMAIN cascades' \/ cascades'[i] # cascades[i]
              /\ SameGroup(k, cascades[i].key)]_vars

\* one group has been launched and stopped through the cascade of its root
\* while the service of the other group is Pending without a token
C20_Witness ==
  /\ Len(service_groups) = 2
  /\ \E g, h \in DOMAIN service_groups :
       /\ g # h
       /\ Cardinality(service_groups[g].nodes) = 2
       /\ \A k \in GroupKeys(service_groups[g]) : service_state_map[k] = Stopped
       /\ \A k \in GroupKeys(service_groups[h]) :
            service_state_map[k] = Pending /\ service_canceltoken_map[k] = 0

\* ------------------------------------------------------------------------
\* C21: once the manager is dropped (its root token is cancelled), every
\* runner eventually ends, whatever the state of its service and whether or
\* not its token is in the cancel-token map, with no child left alive behind
\* it (the child is killed, unless it exited by itself or child.kill()
\* returned an error), and the event loop eventually returns.
\* ------------------------------------------------------------------------
RunnersEnded ==
  \A r \in DOMAIN service_tasks :
     service_tasks[r].pc = "done" /\ service_tasks[r].child # "alive"

Untouched(k) ==
  /\ service_state_map'[k] = service_state_map[k]
  /\ service_canceltoken_map'[k] = service_canceltoken_map[k]
  /\ \A r \in DOMAIN service_tasks :
       service_tasks[r].key = k => service_tasks'[r] = service_tasks[r]

C22_StopFrame ==
  [][/\ \A c \in Callers :
          (Steps(c) /\ calls'[c].op = "stop_service") =>
            \A k \in ServiceKeys \ ({calls'[c].key} \cup RevReach(calls'[c].key)) :
               Untouched(k)
     /\ \A i \in DOMAIN cascades :
          (i \notin DOMAIN cascades' \/ cascades'[i] # cascades[i]) =>
            \A k \in ServiceKeys \ RevReach(cascades[i].key) : Untouched(k)]_vars

\* stop_service(key) has returned Ok(()) after it stopped key and a
\* dependent of key, while a service of the same group that does not depend
\* on key is still Running with its token in the map and its runner waiting
C22_Witness ==
  \E c \in Callers, k \in ServiceKeys :
    /\ calls[c].op = "stop_service" /\ calls[c].pc = "done" /\ calls[c].res = "Ok"
    /\ calls[c].key \in calls[c].hit
    /\ calls[c].hit \cap RevReach(calls[c].key) # {}
    /\ k \notin {calls[c].key} \cup RevReach(calls[c].key)
    /\ service_state_map[k] = Running
    /\ service_canceltoken_map[k] # 0
    /\ service_tasks[service_canceltoken_map[k]].pc = "wait"
    /\ ~service_tasks[service_canceltoken_map[k]].cancelled

\* ------------------------------------------------------------------------
\* C30 (as amended): the first step of stop_service(key) on a Running
\* service sets key to Stopping and touches no other service; the step of
\* the call that removes and cancels the token of a service k comes after
\* stop_service has been applied to every direct dependent of k (each was
\* found Running by the call, or is in a state on which stop_service is a
\* no-op) and after the token of every service that the call reached behind
\* k and found Running has been removed and cancelled.
\* ------------------------------------------------------------------------
StopCancels(c, k) ==
  /\ Steps(c)
  /\ calls'[c].op = "stop_service"
  /\ service_canceltoken_map[k] # 0
  /\ service_canceltoken_map'[k] = 0

TokenCancelled(d) ==
  /\ service_canceltoken_map[d] = 0
  /\ \A r \in DOMAIN service_tasks :
       service_tasks[r].key = d =>
         service_tasks[r].cancelled \/ service_tasks[r].pc = "done"

C30_DependentsFirst ==
  [][\A c \in Callers :
       /\ \A key \in ServiceKeys :
            (StopCallOn(c, key) /\ service_state_map[key] = Running) =>
              /\ service_state_map'[key] = Stopping
              /\ service_canceltoken_map'[key] = service_canceltoken_map[key]
              /\ service_tasks' = service_tasks
              /\ \A k \in ServiceKeys \ {key} : Untouched(k)
       /\ \A k \in ServiceKeys :
            StopCancels(c, k) =>
              /\ k \in calls'[c].hit
              /\ \A d \in Range(rev_dep_keys(k)) :
                   d \in calls'[c].hit \/ IsIdleState(service_state_map[d])
              /\ \A d \in RevReach(k) \cap calls'[c].hit : TokenCancelled(d)]_vars

\* stop_service on the root of the chain has returned Ok(()) after it found
\* the three services Running: the three tokens are removed and cancelled
C30_Witness ==
  \E c \in Callers :
    /\ calls[c].op = "stop_service" /\ calls[c].pc = "done" /\ calls[c].res = "Ok"
    /\ calls[c].hit = ServiceKeys
    /\ \E d \in RevReach(calls[c].key) : RevReach(d) # {}
    /\ \A d \in ServiceKeys : TokenCancelled(d)

\* C30 as stated: when a stop_service call cancels the token of a service,
\* no service that depends on it, directly or through other services, is
\* Running with a token that is not cancelled
C30_Original ==
  [][\A c \in Callers, k \in ServiceKeys :
       StopCancels(c, k) =>
         \A d \in RevReach(k) :
            service_state_map[d] = Running => TokenCancelled(d)]_vars

\* ------------------------------------------------------------------------
\* C25: is_subset(x, y) is true exactly when x is an order-preserving
\* subsequence of y: the elements of x can be matched, in their order, to
\* distinct positions of y that hold the same names.  This covers empty
\* lists and lists with repeated names.
\* ------------------------------------------------------------------------
IsSubsequence(x, y) ==
  \E f \in [DOMAIN x -> DOMAIN y] :
    /\ \A i, j \in DOMAIN x : i < j => f[i] < f[j]
    /\ \A i \in DOMAIN x : x[i] = y[f[i]]

Returned(op) == command.op = op /\ command.pc = "returned"

C25_Subsequence ==
  Returned("is_subset") =>
    (command.ret <=> IsSubsequence(command.args[1], command.args[2]))

\* is_subset has returned false although every name of x occurs in y and x
\* is not longer than y: the names are in another order, or x repeats a name
C25_Witness ==
  /\ Returned("is_subset")
  /\ command.ret = FALSE
  /\ Range(command.args[1]) \subseteq Range(command.args[2])
  /\ Len(command.args[1]) <= Len(command.args[2])
  /\ Len(command.args[1]) >= 2

\* ------------------------------------------------------------------------
\* C23: map_alias binds each previous alias to at most one new group: no
\* alias occurs twice in its result.
\* ------------------------------------------------------------------------
C23_AliasOnce ==
  Returned("map_alias") =>
    \A i, j \in DOMAIN command.ret :
       command.ret[i].alias = command.ret[j].alias => i = j

\* ------------------------------------------------------------------------
\* C24: map_alias is first-prev-wins.  Each new group gets at most one
\* alias, the alias of the earliest prev entry whose name list contains, or
\* is contained in, the group's name list as a subsequence; a new group that
\* no prev entry matches gets none, so a prev entry whose matching groups
\* are all taken by earlier entries loses its alias.  {A,B} (frontends) and
\* {C} (backend) merged into {A,B,C,D} give frontends on the merged group
\* and no backend; {A,B,D} and {C} keep both aliases.
\* ------------------------------------------------------------------------
Contains(x, y) ==
  IF Len(x) <= Len(y) THEN IsSubsequence(x, y) ELSE IsSubsequence(y, x)

\* the prev entries that match the curr entry at idx
MatchingPrev(prev, curr, idx) ==
  {i \in DOMAIN prev : Contains(prev[i].service_names, curr[idx].service_names)}

Earliest(S) == CHOOSE i \in S : \A j \in S : i <= j

Binding(g, a) == [group_id |-> g, alias |-> a]

FrontendsBackend ==
  <<[alias |-> "frontends", service_names |-> <<"A", "B">>],
    [alias |-> "backend", service_names |-> <<"C">>]>>

C24_FirstPrevWins ==
  Returned("map_alias") =>
    LET prev == command.args[1]
        curr == command.args[2]
        ret == command.ret
    IN /\ \A i, j \in DOMAIN ret : ret[i].group_id = ret[j].group_id => i = j
       /\ \A idx \in DOMAIN curr :
            IF MatchingPrev(prev, curr, idx) = {}
            THEN \A i \in DOMAIN ret : ret[i].group_id # curr[idx].group_id
            ELSE Binding(curr[idx].group_id,
                         prev[Earliest(MatchingPrev(prev, curr, idx))].alias)
                   \in Range(ret)
       /\ (/\ prev = FrontendsBackend
           /\ curr = <<[group_id |-> 0, service_names |-> <<"A", "B", "C", "D">>]>>)
            => ret = <<Binding(0, "frontends")>>
       /\ (/\ prev = FrontendsBackend
           /\ curr = <<[group_id |-> 0, service_names |-> <<"A", "B", "D">>],
                       [group_id |-> 1, service_names |-> <<"C">>]>>)
            => ret = <<Binding(0, "frontends"), Binding(1, "backend")>>
       /\ (/\ prev = FrontendsBackend
           /\ curr = <<[group_id |-> 0, service_names |-> <<"C">>],
                       [group_id |-> 1, service_names |-> <<"A", "B", "D">>]>>)
            => ret = <<Binding(1, "frontends"), Binding(0, "backend")>>

\* map_alias has returned on a merged group that two prev entries match:
\* the group has the alias of the first one and the second alias is lost
C24_Witness ==
  /\ Returned("map_alias")
  /\ Len(command.args[2]) = 1
  /\ Cardinality(MatchingPrev(command.args[1], command.args[2], 1)) = 2
  /\ Len(command.ret) = 1
  /\ command.ret[1].alias = command.args[1][1].alias

\* ------------------------------------------------------------------------
\* Properties of the store commands
\* ------------------------------------------------------------------------
\* the command op has just returned
CommandReturns(op) == ncalls' = ncalls + 1 /\ command'.op = op

\* the meta that the request of add_service describes
RequestMeta(request) ==
  [name |-> request.name, version |-> request.version, program |-> request.program,
   args |-> request.args, workspace |-> request.workspace]

\* C26: when reload_service_manager runs right after a successful
\* add_service, service_meta(name, version) of the new manager exists and
\* equals the request on name, version, program, args (in order) and
\* workspace
C26_AddThenReload ==
  ( /\ command.op = "reload_service_manager"
    /\ command.after.op = "add_service"
    /\ command.after.ret[1] = "Ok" )
  => service_meta(<<command.after.args.name, command.after.args.version>>)
       = Some(RequestMeta(command.after.args))

\* the rows of service_group_alias give each group id one alias and each
\* alias one group id
AliasesOneToOne(d) ==
  \A r1, r2 \in d.service_group_alias :
    (r1.group_id = r2.group_id \/ r1.alias = r2.alias) => r1 = r2

\* C27: a query_group_alias(g) right after a successful
\* insert_group_alias(g, a) returns a, and right after remove_group_alias(g)
\* returns absent; after every command each group id has at most one alias
\* and each alias at most one group id; an insert_group_alias that fails
\* leaves the store as it was
C27_AliasRoundTrip ==
  [][ /\ AliasesOneToOne(db')
      /\ ( /\ CommandReturns("query_group_alias")
           /\ command.op = "insert_group_alias"
           /\ command.ret[1] = "Ok"
           /\ command.args[1] = command'.args[1] )
         => command'.ret = Some(command.args[2])
      /\ ( /\ CommandReturns("query_group_alias")
           /\ command.op = "remove_group_alias"
           /\ command.args[1] = command'.args[1] )
         => command'.ret = None
      /\ (CommandReturns("insert_group_alias") /\ command'.ret[1] = "Err")
         => db' = db
    ]_vars

\* an alias is read back right after its insert while another group has an
\* alias too
C27_Witness ==
  /\ command.op = "query_group_alias"
  /\ command.after.op = "insert_group_alias"
  /\ command.after.ret[1] = "Ok"
  /\ command.after.args[1] = command.args[1]
  /\ command.ret = Some(command.after.args[2])
  /\ Cardinality(db.service_group_alias) = 2

\* the rows of the four tables that belong to the service id
RowsOf(d, id) ==
  [service |-> {r \in d.service : r.id = id},
   service_config |-> {r \in d.service_config : r.service_id = id},
   service_arg |-> {r \in d.service_arg : r.service_id = id},
   service_dependency |-> {r \in d.service_dependency : r.service_id = id}]

Stored(d, key) == \E r \in d.service : r.name = key[1] /\ r.version = key[2]

StoredId(d, key) == (CHOOSE r \in d.service : r.name = key[1] /\ r.version = key[2]).id

\* C28: add_service returns an error when a listed dependency is not
\* stored or the (name, version) is already stored; when it returns an
\* error the store is as it was before (no row of the new service in any
\* table); when it succeeds the rows of the returned id are the service
\* row, the config row, one arg row per arg with indexes 0..n-1 in the
\* order of the request, and one dependency row per listed dependency
C28_AllOrNothing ==
  [][ CommandReturns("add_service") =>
        LET request == command'.args
            id == command'.ret[2]
        IN /\ ( \/ \E i \in DOMAIN request.dependencies :
                     ~Stored(db, request.dependencies[i])
                \/ Stored(db, <<request.name, request.version>>) )
              => command'.ret[1] = "Err"
           /\ command'.ret[1] = "Err" => db' = db
           /\ command'.ret[1] = "Ok" =>
                /\ id \notin ServiceIds(db)
                /\ RowsOf(db', id) =
                     [service |-> {[id |-> id, name |-> request.name,
                                    version |-> request.version]},
                      service_config |-> {[service_id |-> id,
                                           program |-> request.program,
                                           description |-> request.description,
                                           workspace |-> request.workspace]},
                      service_arg |-> {[service_id |-> id, arg_idx |-> i - 1,
                                        value |-> request.args[i]] :
                                         i \in DOMAIN request.args},
                      service_dependency |->
                        {[service_id |-> id,
                          dependency_id |-> StoredId(db, request.dependencies[i])] :
                           i \in DOMAIN request.dependencies}]
                /\ \A other \in ServiceIds(db) : RowsOf(db', other) = RowsOf(db, other)
    ]_vars

\* a service with two args was added, and then a request that lists that
\* service twice as a dependency failed after its first rows were written
C28_Witness ==
  /\ command.op = "add_service"
  /\ command.ret[1] = "Err"
  /\ command.args.dependencies = <<kA, kA>>
  /\ nfaults = 0
  /\ command.after.op = "add_service"
  /\ command.after.ret[1] = "Ok"
  /\ Len(command.after.args.args) = 2
  /\ Cardinality(db.service_arg) = 2

\* the (service id, group index) pairs of the groups of the manager, for
\* the services of Keep
ManagerPairs(d, Keep(_)) ==
  {[service_id |-> StoredId(d, key), group_id |-> g - 1] :
     <<g, key>> \in {p \in (DOMAIN service_groups) \X ServiceKeys :
                       p[2] \in GroupKeys(service_groups[p[1]]) /\ Keep(p[2])}}

\* C29 as stated: a failing update_service_group_membership leaves
\* service_group_alias and service_group_membership as they were, and after
\* a successful one every (service, group index) pair of the groups of the
\* manager has its row in service_group_membership and there is no other row
C29_Original ==
  [][ CommandReturns("update_service_group_membership") =>
        /\ command'.ret[1] = "Err" =>
             /\ db'.service_group_alias = db.service_group_alias
             /\ db'.service_group_membership = db.service_group_membership
        /\ command'.ret[1] = "Ok" =>
             /\ \A key \in ServiceKeys : Stored(db, key)
             /\ db'.service_group_membership = ManagerPairs(db, LAMBDA key : TRUE)
    ]_vars

\* C29: a failing update_service_group_membership leaves
\* service_group_alias and service_group_membership as they were, and after
\* a successful one service_group_membership holds exactly the (service,
\* group index) pairs of the groups of the manager whose service is still
\* stored
C29_Atomic ==
  [][ CommandReturns("update_service_group_membership") =>
        /\ command'.ret[1] = "Err" => db' = db
        /\ command'.ret[1] = "Ok" =>
             db'.service_group_membership = ManagerPairs(db, LAMBDA key : Stored(db, key))
    ]_vars

\* the update succeeded for a manager one of whose services is no longer
\* stored, and wrote the row of the other
C29_Witness ==
  /\ command.op = "update_service_group_membership"
  /\ command.ret[1] = "Ok"
  /\ \E key \in ServiceKeys : ~Stored(db, key)
  /\ db.service_group_membership # {}

\* ------------------------------------------------------------------------
\* The recursion of stop_service
\* ------------------------------------------------------------------------
GroupOf(key) == service_groups[service_groupidx(key)]

\* the next step of a stop_service that has set the services of hit to
\* Stopping and has entered stop_service n times: it does not set a service
\* to Stopping again, it cancels a token that is not cancelled yet, and it
\* enters stop_service at most bound times
RecursionStep(stack, hit, n, bound) ==
  LET o == stop_service_outcome(stack)
  IN /\ o.kind = "Stopping" => o.key \notin hit
     /\ o.kind = "Cancel" =>
          ~service_tasks[service_canceltoken_map[o.key]].cancelled
     /\ Enters(o) => n + 1 <= bound

\* the same for every stop_service in progress, of a caller or of a task
\* spawned on a crash (whose loop starts a new top-level stop_service when
\* its stack holds the bottom frame only)
RecursionBounded(Bound(_)) ==
  /\ \A c \in Callers :
       (calls[c].pc = "stop" /\ stop_service(c)) =>
         RecursionStep(calls[c].stack, calls[c].hit, calls[c].n, Bound(calls[c].key))
  /\ \A i \in DOMAIN cascades :
       crash_cascade(i) =>
         IF Len(cascades[i].stack) = 1
         THEN RecursionStep(cascades[i].stack, {}, 0, Bound(cascades[i].key))
         ELSE RecursionStep(cascades[i].stack, cascades[i].hit, cascades[i].n,
                            Bound(cascades[i].key))

\* a stop_service in progress does not enter stop_service for a service that
\* the same top-level call has already set to Stopping
VisitedOnce ==
  /\ \A c \in Callers :
       (calls[c].pc = "stop" /\ stop_service(c)) =>
         LET o == stop_service_outcome(calls[c].stack)
         IN Enters(o) => o.key \notin calls[c].hit
  /\ \A i \in DOMAIN cascades :
       (crash_cascade(i) /\ Len(cascades[i].stack) > 1) =>
         LET o == stop_service_outcome(cascades[i].stack)
         IN Enters(o) => o.key \notin cascades[i].hit

\* C31: one top-level stop_service visits each service at most once: no
\* service is set to Stopping twice, no cancel token is cancelled twice, no
\* service is entered again after the call set it to Stopping, and the
\* recursive calls of stop_service (the top-level call not counted) are at
\* most as many as the group has services
C31_VisitedOnce ==
  [][/\ RecursionBounded(LAMBDA key : 1 + Cardinality(GroupKeys(GroupOf(key))))
     /\ VisitedOnce]_vars

\* what the recursion does keep: within one top-level stop_service, made
\* while no other call is in progress, no service is set to Stopping twice,
\* no cancel token is cancelled twice, and the recursive calls of
\* stop_service are at most as many as the group has dependency edges
EdgeBounded ==
  [][RecursionBounded(LAMBDA key : 1 + Len(GroupOf(key).edges))]_vars

\* ------------------------------------------------------------------------
\* The event loop
\* ------------------------------------------------------------------------
\* the event loop takes an event of that type from the channel
Handles(type) == Received(type) /\ event_chan' = Tail(event_chan)

\* the dependents the task spawned on a crash has still to stop
Remaining(task) == task.stack[1].rest

\* C32: on ServiceCrashed{key, reason} the event loop removes the token of
\* key and writes Failed(reason) whatever the state of key was; in that step
\* it touches no other service and no runner, and it hands the direct
\* dependents of key to a new task.  A step of such a task, whether its
\* stop_service succeeds or returns an error, keeps every dependent the task
\* has not attempted yet.
C32_Crashed ==
  [][/\ Handles("ServiceCrashed") =>
          LET key == Head(event_chan).service_key
          IN /\ service_canceltoken_map' =
                  [service_canceltoken_map EXCEPT ![key] = 0]
             /\ service_state_map' =
                  [service_state_map EXCEPT ![key] = Failed(Head(event_chan).reason)]
             /\ service_tasks' = service_tasks
             /\ IF rev_dep_keys(key) = <<>>
                THEN cascades' = cascades
                ELSE /\ Len(cascades') = Len(cascades) + 1
                     /\ SubSeq(cascades', 1, Len(cascades)) = cascades
                     /\ Len(cascades'[Len(cascades')].stack) = 1
                     /\ Remaining(cascades'[Len(cascades')]) = rev_dep_keys(key)
     /\ \A i \in DOMAIN cascades :
          crash_cascade(i) =>
            LET left == IF Len(cascades[i].stack) = 1
                        THEN Tail(Remaining(cascades[i]))
                        ELSE Remaining(cascades[i])
            IN IF left = <<>>
               THEN Len(cascades') = Len(cascades) - 1 \/ Remaining(cascades'[i]) = <<>>
               ELSE Len(cascades') = Len(cascades) /\ Remaining(cascades'[i]) = left]_vars

\* the crash of a service arrived while the service was Stopping (its kill
\* failed), and the task spawned for it got the mid-state error on the first
\* dependent and still holds the second
C32_Witness ==
  \E key \in ServiceKeys, i \in DOMAIN cascades :
    /\ service_state_map[key] = Failed(KillFailedReason)
    /\ service_canceltoken_map[key] = 0
    /\ cascades[i].key = key
    /\ Len(cascades[i].stack) = 1
    /\ cascades[i].n = 1
    /\ Len(Remaining(cascades[i])) = 1
    /\ \E d \in Range(rev_dep_keys(key)) \ Range(Remaining(cascades[i])) :
         service_state_map[d] \in MidStates

\* the event loop writes state to over from when it takes an event of that
\* type for a service in state from, and leaves the state map as it is when
\* the service is in another state or has no entry; it writes nothing else
\* and goes on receiving
Transition(type, from, to) ==
  Handles(type) =>
    LET key == Head(event_chan).service_key
    IN /\ service_state_map' =
            IF key \in DOMAIN service_state_map /\ service_state_map[key] = from
            THEN [service_state_map EXCEPT ![key] = to]
            ELSE service_state_map
       /\ UNCHANGED <<service_canceltoken_map, service_tasks, cascades, event_rx>>

\* C33: ServiceStarted changes a state only from Starting to Running and
\* ServiceStopped only from Stopping to Stopped; an event that arrives in
\* another state, or for a key without a state entry, changes nothing and
\* the loop goes on; no other step makes a service Running or Stopped
C33_EventTransitions ==
  [][/\ Transition("ServiceStarted", Starting, Running)
     /\ Transition("ServiceStopped", Stopping, Stopped)
     /\ \A k \in ServiceKeys :
          /\ (service_state_map'[k] = Running /\ service_state_map[k] # Running) =>
                /\ Handles("ServiceStarted")
                /\ Head(event_chan).service_key = k
                /\ service_state_map[k] = Starting
          /\ (service_state_map'[k] = Stopped /\ service_state_map[k] # Stopped) =>
                /\ Handles("ServiceStopped")
                /\ Head(event_chan).service_key = k
                /\ service_state_map[k] = Stopping]_vars

\* a ServiceStopped that arrived while its service was Running was ignored:
\* the runner of the service was killed and its event is taken, the service
\* is still Running and the loop is receiving
C33_Witness ==
  \E k \in ServiceKeys :
    /\ service_state_map[k] = Running
    /\ event_chan = <<>>
    /\ event_rx = "open"
    /\ \E r \in DOMAIN service_tasks :
         service_tasks[r].key = k /\ service_tasks[r].child = "killed"
    /\ \A r \in DOMAIN service_tasks :
         service_tasks[r].key = k => service_tasks[r].pc = "done"

\* ------------------------------------------------------------------------
\* The events of a runner
\* ------------------------------------------------------------------------
IsSuffix(x, y) ==
  Len(x) <= Len(y) /\ x = SubSeq(y, Len(y) - Len(x) + 1, Len(y))

\* the types of the events of the service key that wait in the channel
InChannel(key) ==
  LET of_key == SelectSeq(event_chan, LAMBDA e : e.service_key = key)
  IN [i \in DOMAIN of_key |-> of_key[i].type]

LastTask(key) ==
  CHOOSE r \in DOMAIN service_tasks :
    /\ service_tasks[r].key = key
    /\ \A q \in DOMAIN service_tasks : service_tasks[q].key = key => q <= r

\* what a runner has sent, by its position and the fate of its child
ProtocolState ==
  /\ \A r \in DOMAIN service_tasks :
       LET t == service_tasks[r]
       IN t.sent =
            IF t.pc = "spawn" THEN <<>>
            ELSE IF t.pc = "wait" THEN <<"ServiceStarted">>
            ELSE IF t.child = "none" THEN <<"ServiceCrashed">>
            ELSE IF t.child = "killed" THEN <<"ServiceStarted", "ServiceStopped">>
            ELSE <<"ServiceStarted", "ServiceCrashed">>
  /\ \A key \in ServiceKeys :
       IF \E r \in DOMAIN service_tasks : service_tasks[r].key = key
       THEN IsSuffix(InChannel(key), service_tasks[LastTask(key)].sent)
       ELSE InChannel(key) = <<>>

\* when a runner sends: ServiceStarted after a successful spawn,
\* ServiceStopped after its token was cancelled and the child killed,
\* ServiceCrashed after a failed spawn, a failed kill or the exit of the
\* child; nothing after it has returned; the event is appended to the
\* channel while the receiver exists
ProtocolStep ==
  \A r \in DOMAIN service_tasks :
    LET t == service_tasks[r]
        u == service_tasks'[r]
    IN u.sent # t.sent =>
         /\ t.pc # "done"
         /\ \E type \in {"ServiceStarted", "ServiceStopped", "ServiceCrashed"} :
              /\ u.sent = Append(t.sent, type)
              /\ type = "ServiceStarted" =>
                   t.pc = "spawn" /\ u.pc = "wait" /\ u.child = "alive"
              /\ type = "ServiceStopped" =>
                   t.pc = "wait" /\ t.cancelled /\ u.pc = "done" /\ u.child = "killed"
              /\ type = "ServiceCrashed" =>
                   /\ u.pc = "done"
                   /\ \/ t.pc = "spawn" /\ u.child = "none"
                      \/ t.pc = "wait" /\ t.cancelled /\ u.child = "kill_failed"
                      \/ t.pc = "wait" /\ u.child = "exited"
              /\ event_rx = "open" =>
                   /\ Len(event_chan') = Len(event_chan) + 1
                   /\ SubSeq(event_chan', 1, Len(event_chan)) = event_chan
                   /\ event_chan'[Len(event_chan')].type = type
                   /\ event_chan'[Len(event_chan')].service_key = t.key

\* C34: a runner whose spawn fails sends one ServiceCrashed and nothing
\* else; any other runner sends one ServiceStarted and then at most one
\* event, its last: ServiceStopped when its token was cancelled and the kill
\* succeeded, ServiceCrashed when the kill failed or the child exited; the
\* events of one run wait in the channel in the order they were sent
C34_RunnerProtocol == []ProtocolState /\ [][ProtocolStep]_vars

\* two complete runs: one ended by a kill, and one ended by a failed kill
\* or by the exit of the child, whose two events are still in the channel
C34_Witness ==
  /\ \E r \in DOMAIN service_tasks :
       service_tasks[r].sent = <<"ServiceStarted", "ServiceStopped">>
  /\ \E r \in DOMAIN service_tasks :
       /\ service_tasks[r].sent = <<"ServiceStarted", "ServiceCrashed">>
       /\ InChannel(service_tasks[r].key) = service_tasks[r].sent

\* ------------------------------------------------------------------------
\* One runner for each service
\* ------------------------------------------------------------------------
\* the runners of key that have not returned
LiveRunners(key) ==
  {r \in DOMAIN service_tasks :
     service_tasks[r].key = key /\ service_tasks[r].pc # "done"}

\* the runners of key whose child process is in one of these conditions
ChildrenOf(key, conditions) ==
  {r \in DOMAIN service_tasks :
     service_tasks[r].key = key /\ service_tasks[r].child \in conditions}

\* a runner is spawned for a service only when every earlier runner of the
\* service has returned and none of their events waits in the channel
SpawnedAfterTerminal ==
  Len(service_tasks') > Len(service_tasks) =>
    LET key == service_tasks'[Len(service_tasks')].key
    IN /\ LiveRunners(key) = {}
       /\ InChannel(key) = <<>>

\* C35 as stated: at any time a service has at most one runner and, of all
\* its runs, at most one child process that was neither killed nor exited
C35_Original ==
  /\ [](\A key \in ServiceKeys :
          /\ Cardinality(LiveRunners(key)) <= 1
          /\ Cardinality(ChildrenOf(key, {"alive", "kill_failed"})) <= 1)
  /\ [][SpawnedAfterTerminal]_vars

\* C35: at any time a service has at most one runner, and at most one child
\* process on which kill has not been tried; a runner is spawned only after
\* the last event of the previous runner of the service has been handled
C35_OneRunner ==
  /\ [](\A key \in ServiceKeys :
          /\ Cardinality(LiveRunners(key)) <= 1
          /\ Cardinality(ChildrenOf(key, {"alive"})) <= 1)
  /\ [][SpawnedAfterTerminal]_vars

\* two launch_service calls for the same service are in progress together:
\* one has spawned the runner, the other has read the dependencies and is
\* about to read the state
C35_Witness ==
  \E c \in Callers, d \in Callers, key \in ServiceKeys :
    /\ c # d
    /\ calls[c].op = "launch_service" /\ calls[c].key = key /\ calls[c].pc = "gate"
    /\ calls[d].op = "launch_service" /\ calls[d].key = key /\ calls[d].pc = "done"
    /\ LiveRunners(key) # {}
    /\ service_state_map[key] \in {Starting, Running}

\* ------------------------------------------------------------------------
\* Stopping ends
\* ------------------------------------------------------------------------
\* C36: a service that stop_service has set to Stopping eventually becomes
\* Stopped or Failed, while the manager is alive and the runners, the event
\* loop, the tasks spawned on a crash and the calls make progress
C36_StoppingEnds ==
  \A key \in {kA, kB, kC} :
    (service_state_map[key] = Stopping) ~> IsStoppedOrFailed(service_state_map[key])

\* ------------------------------------------------------------------------
\* The token of a Running service
\* ------------------------------------------------------------------------
\* C37: the cancel-token map holds, for every Running service, the token of
\* the runner that was spawned last for it
C37_RunningHasToken ==
  \A key \in ServiceKeys :
    service_state_map[key] = Running =>
      /\ service_canceltoken_map[key] # 0
      /\ service_canceltoken_map[key] = LastTask(key)

\* ------------------------------------------------------------------------
\* The dependencies of a service that starts or runs
\* ------------------------------------------------------------------------
\* C38: when a step writes Starting over the state of a service, every
\* direct dependency of the service is Running at that moment
C38_AtomicLaunch ==
  [][\A key \in ServiceKeys :
       (service_state_map'[key] = Starting /\ service_state_map[key] # Starting) =>
         \A dep \in Range(dep_keys(key)) : service_state_map[dep] = Running]_vars

\* C39: when no call is in progress, no event waits in the channel and no
\* task spawned on a crash is running, every Running service has all its
\* direct dependencies Running
C39_RunningDeps ==
  Quiescent =>
    \A key \in ServiceKeys :
      service_state_map[key] = Running =>
        \A dep \in Range(dep_keys(key)) : service_state_map[dep] = Running

\* ------------------------------------------------------------------------
\* The bounded channel
\* ------------------------------------------------------------------------
\* the runner is about to send: its spawn has returned, or its token is
\* cancelled
Sending(r) ==
  /\ r \in DOMAIN service_tasks
  /\ \/ service_tasks[r].pc = "spawn"
     \/ service_tasks[r].pc = "wait" /\ service_tasks[r].cancelled

HasSent(r, n) == r \in DOMAIN service_tasks /\ Len(service_tasks[r].sent) > n

\* C40: the channel never holds more than its capacity; a runner that is
\* about to send gets its event into the channel, and the event loop takes
\* every event that waits in the channel
C40_NoDeadlock ==
  /\ [](Len(event_chan) <= EventChannelCapacity)
  /\ \A r \in 1..MaxRunners, n \in {0, 1} :
       (Sending(r) /\ Len(service_tasks[r].sent) = n) ~> HasSent(r, n)
  /\ (event_chan # <<>>) ~> (event_chan = <<>>)

\* the channel is full and a runner that is about to send ServiceStarted
\* has to wait
C40_Witness ==
  /\ Len(event_chan) = EventChannelCapacity
  /\ event_rx = "open"
  /\ \E r \in DOMAIN service_tasks : service_tasks[r].pc = "spawn"

====
